---- MODULE Spec2Model ----
(***************************************************************************)
(* Model of the customer_service_ai orchestration core:                    *)
(*   - ChatSessionDO, the per-session Durable Object that stores the       *)
(*     conversation history (src/src/durable_objects/chatSession.js);      *)
(*   - SupportAgent.processMessage, the per-message orchestrator           *)
(*     (src/src/agent/supportAgent.js);                                    *)
(*   - TicketResolver.resolveTicket (src/src/features/ticketResolver.js);  *)
(*   - the approval_requests table and the agent's decision routes         *)
(*     (DatabaseManager, src/src/routes/agentRoutes.js).                   *)
(***************************************************************************)
EXTENDS Integers, Sequences, FiniteSets, TLC

(***************************************************************************)
(* Bounds of the model and constants of the program.                       *)
(***************************************************************************)
\* handleStoreMessage keeps at most this many messages (chatSession.js:48).
MaxHistory == 100

\* handleGetHistory's default limit (chatSession.js:65).
DefaultLimit == 50

\* Number of store requests the session-store specification lets arrive.
MaxAppends == 102

\* Number of approval operations (creations and decisions) the approval
\* specification lets happen.
MaxDbOps == 4

\* shouldEscalate: a query longer than this is escalated (escalation.js:41).
EscalationLength == 200

\* shouldEscalate: this many question marks escalate (escalation.js:47).
QuestionMarkLimit == 3

\* shouldEscalate looks at this many recent messages (escalation.js:53).
RecentMessages == 6

\* shouldEscalate: this many recent user messages, one of them frustrated,
\* escalate (escalation.js:62).
FrustratedTurns == 3

\* Longest session history handed to shouldEscalate with every content; the
\* longer ones are LongHistories.
MaxEscalationHistory == 4

\* Number of vectors the memory specification lets the index hold.
MaxVectors == 2

\* The longest stored history and the largest limit of the history requests.
MaxStored == 6

MaxLimit == 7

\* The most requests delivered to the session objects in the session
\* specification.
MaxSessionOps == 3

\* The rate limiter of the model: maxRequests and windowMs of the middleware,
\* and the last instant of the clock.
MaxRequests == 2

WindowMs == 2

MaxTime == 4

\* topK of the knowledge query, and the limit reasonWithFAQs,
\* findSimilarResolutions and recallCustomerInteractions pass
\* (supportAgent.js:348).
TopK == 3

\* isTicketRequest treats a message longer than this as a ticket
\* (supportAgent.js:435).
TicketLength == 100

\* Number of chat requests the turn specification lets arrive, one after
\* the other.
MaxTurns == 1

\* Number of chat requests the concurrent specification lets arrive.
MaxConcurrentTurns == 2

\* processMessage calls in progress at the same time.
Turns == {"t1", "t2"}

\* Company ids (c.get('companyId')).
Companies == {"c1", "c2"}

\* The tool sets a company can have registered.
Registries ==
  { {},
    {"account_lookup", "technical_support"},
    {"order_status", "accountLookup", "account_lookup"} }

\* Limits asked of handleGetHistory: the default and values at and above the cap.
HistoryLimits == {DefaultLimit, MaxHistory, MaxAppends}

Sessions == {"s1"}

\* In-flight requests to the session objects.
Reqs == {"r1", "r2"}

VARIABLES
  storage,    \* storage[s]: the Durable Object storage of session s
  log,        \* log[s]: every message put into session s, in the order applied
  req,        \* req[r]: the fetch request r in flight to a session object
  arrivals,   \* number of store requests delivered so far
  nextId,     \* source of fresh message ids (crypto.randomUUID)
  now,        \* the clock read by new Date()
  approvalRows,    \* the approval_requests table: approvalRows[id] is the row
  dbClock,         \* the database's CURRENT_TIMESTAMP
  lastCall,        \* the last approval operation and what its caller got back
  escalatedSessions, \* EscalationManager.escalatedSessions: session id -> record
  turn,            \* turn[t]: the processMessage call t in progress
  turnCount,       \* number of chat requests received so far
  resolverCall,    \* the last direct call of TicketResolver.resolveTicket
  libCall,         \* the last direct call of another method and what it returned
  vectorIndex,     \* the vectors stored in env.VECTORIZE_INDEX
  limiter          \* the requests map of one rateLimit middleware

storeVars == <<storage, log, req, arrivals, nextId, now>>

approvalVars == <<approvalRows, dbClock, lastCall, escalatedSessions>>

turnVars == <<turn, turnCount, resolverCall, libCall, vectorIndex>>

vars == <<storage, log, req, arrivals, nextId, now, approvalRows, dbClock, lastCall,
          escalatedSessions, turn, turnCount, resolverCall, libCall, vectorIndex,
          limiter>>

(***************************************************************************)
(* Array helpers, as JavaScript computes them.                             *)
(***************************************************************************)
Max(a, b) == IF a > b THEN a ELSE b

Min(a, b) == IF a < b THEN a ELSE b

\* Array.prototype.slice(start) for an integer start (negative: from the end).
\* slice(-0) is slice(0): the whole array.
JsSlice(arr, start) ==
  LET n == Len(arr)
      from == IF start < 0 THEN Max(n + start, 0) ELSE Min(start, n)
  IN  SubSeq(arr, from + 1, n)

\* The last k elements of arr (all of it when it has fewer), oldest first.
LastN(arr, k) == SubSeq(arr, Max(Len(arr) - k, 0) + 1, Len(arr))

\* The positions of the message with this id in arr.
Positions(arr, id) == {i \in 1..Len(arr) : arr[i].id = id}

(***************************************************************************)
(* Approval requests: the approval_requests table, DatabaseManager and the  *)
(* agent's decision routes.                                                *)
(***************************************************************************)
ApprovalSessions == {"s1", "s2"}

Agents == {"agent1", "agent2"}

\* The feedback of a decision's body ("": none given).
Feedbacks == {"", "note"}

\* The request ids a decision can name: those ever created, and one more.
RequestIds == 1..(MaxDbOps + 1)

NoCall == [op |-> "none", requestId |-> 0, session |-> "none", http |-> 0,
           success |-> FALSE, existed |-> FALSE, before |-> <<>>, at |-> 0]

\* The sessions of the escalation calls, and a session without a record.
EscalationSessions == {"s1", "s2"}

NoRecord == [status |-> "none", method |-> "none", query |-> "none", timestamp |-> 0,
             assignedAgent |-> "null", resolution |-> "undefined", resolvedAt |-> 0]

ApprovalStart ==
  /\ approvalRows = <<>>
  /\ dbClock = 1
  /\ lastCall = NoCall
  /\ escalatedSessions = [s \in EscalationSessions |-> NoRecord]

RowExists(rows, requestId) == requestId \in DOMAIN rows

\* INSERT INTO approval_requests (...): status defaults to 'pending',
\* created_at and updated_at to CURRENT_TIMESTAMP. The new id is fresh.
InsertApprovalRequest(rows, customerId, conversationId, at) ==
  Append(rows, [id |-> Len(rows) + 1, customer_id |-> customerId,
                conversation_id |-> conversationId, status |-> "pending",
                agent_id |-> "null", agent_feedback |-> "null", resolved_at |-> 0,
                created_at |-> at, updated_at |-> at])

\* UPDATE approval_requests SET <fields of updates>, updated_at =
\* CURRENT_TIMESTAMP WHERE id = requestId: no row, no change and no error.
UpdateApprovalRequest(rows, requestId, updates, at) ==
  IF RowExists(rows, requestId)
    THEN [rows EXCEPT ![requestId] =
            [f \in DOMAIN @ |-> IF f \in DOMAIN updates THEN updates[f]
                                ELSE IF f = "updated_at" THEN at ELSE @[f]]]
    ELSE rows

\* What a decision route answers and leaves behind: the database call either
\* throws (500, nothing changed) or returns (200, success).
Decide(op, requestId, updates, dbOk) ==
  /\ dbClock <= MaxDbOps
  /\ dbClock' = dbClock + 1
  /\ approvalRows' = IF dbOk
                       THEN UpdateApprovalRequest(approvalRows, requestId, updates, dbClock)
                       ELSE approvalRows
  /\ lastCall' = [op |-> op, requestId |-> requestId, session |-> "none",
                  http |-> IF dbOk THEN 200 ELSE 500, success |-> dbOk,
                  existed |-> RowExists(approvalRows, requestId),
                  before |-> approvalRows, at |-> dbClock]
  /\ UNCHANGED <<storeVars, turnVars, escalatedSessions, limiter>>

\* POST /approvals/:requestId/approve
Approve(requestId, agent, feedback, dbOk) ==
  Decide("approved", requestId,
         [status |-> "approved", agent_id |-> agent, agent_feedback |-> feedback,
          resolved_at |-> dbClock], dbOk)

\* POST /approvals/:requestId/reject: a rejection without feedback is refused.
Reject(requestId, agent, feedback, dbOk) ==
  IF feedback = ""
    THEN /\ lastCall' = [NoCall EXCEPT !.op = "rejected", !.requestId = requestId,
                                       !.http = 400,
                                       !.existed = RowExists(approvalRows, requestId),
                                       !.before = approvalRows, !.at = dbClock]
         /\ UNCHANGED <<approvalRows, dbClock, escalatedSessions, storeVars, turnVars, limiter>>
    ELSE Decide("rejected", requestId,
                [status |-> "rejected", agent_id |-> agent, agent_feedback |-> feedback,
                 resolved_at |-> dbClock], dbOk)

\* POST /approvals/:requestId/escalate: agent_id changes only with escalateTo.
Escalate(requestId, feedback, escalateTo, dbOk) ==
  Decide("escalated", requestId,
         IF escalateTo = "null"
           THEN [status |-> "escalated", agent_feedback |-> feedback]
           ELSE [status |-> "escalated", agent_feedback |-> feedback,
                 agent_id |-> escalateTo], dbOk)

\* The pending requests of a session.
PendingOf(rows, sessionId) ==
  {i \in DOMAIN rows : rows[i].conversation_id = sessionId /\ rows[i].status = "pending"}

\* EscalationManager.createApprovalRequest(action, context, userId, sessionId):
\* a still-pending request of the session is returned, else a new one is
\* inserted with a fresh id and returned.
CreateAlwaysInserts(userId, sessionId) ==
  /\ dbClock <= MaxDbOps
  /\ dbClock' = dbClock + 1
  /\ approvalRows' = InsertApprovalRequest(approvalRows, userId, sessionId, dbClock)
  /\ lastCall' = [NoCall EXCEPT !.op = "create", !.session = sessionId, !.requestId = Len(approvalRows) + 1,
                                 !.http = 200, !.success = TRUE,
                                 !.existed = PendingOf(approvalRows, sessionId) # {},
                                 !.before = approvalRows, !.at = dbClock]
  /\ UNCHANGED <<storeVars, turnVars, escalatedSessions, limiter>>

CreateApprovalRequest(userId, sessionId) ==
  /\ dbClock <= MaxDbOps
  /\ dbClock' = dbClock + 1
  /\ LET pending == PendingOf(approvalRows, sessionId)
     IN  IF pending # {}
           THEN /\ approvalRows' = approvalRows
                /\ lastCall' = [NoCall EXCEPT !.op = "create", !.session = sessionId,
                                    !.requestId = CHOOSE i \in pending : TRUE,
                                    !.http = 200, !.success = TRUE, !.existed = TRUE,
                                    !.before = approvalRows, !.at = dbClock]
           ELSE /\ approvalRows' =
                     InsertApprovalRequest(approvalRows, userId, sessionId, dbClock)
                /\ lastCall' = [NoCall EXCEPT !.op = "create", !.session = sessionId,
                                    !.requestId = Len(approvalRows) + 1,
                                    !.http = 200, !.success = TRUE, !.existed = FALSE,
                                    !.before = approvalRows, !.at = dbClock]
  /\ UNCHANGED <<storeVars, turnVars, escalatedSessions, limiter>>

(***************************************************************************)
(* EscalationManager: the escalation records of one manager object         *)
(***************************************************************************)
\* companyConfig.escalation: not set, or a method with or without its
\* address.
EscalationConfigs ==
  {"undefined", "dashboard", "email", "emailNoAddress", "slack", "slackNoWebhook",
   "other"}

\* escalationConfig.method
EscalationMethod(config) ==
  CASE config \in {"undefined", "dashboard"} -> "dashboard"
    [] config \in {"email", "emailNoAddress"} -> "email"
    [] config \in {"slack", "slackNoWebhook"} -> "slack"
    [] OTHER -> "other"

\* The status that the routing switch leaves in the record.
RoutedStatus(config) ==
  CASE config \in {"email", "slack"} -> "notified"
    [] config \in {"emailNoAddress", "slackNoWebhook"} -> "pending"
    [] OTHER -> "queued"

\* this.escalatedSessions.has(sessionId)
HasUnresolved(records, sessionId) ==
  records[sessionId] # NoRecord /\ records[sessionId].status # "resolved"

Has(records, sessionId) == records[sessionId] # NoRecord

\* escalateToHuman(sessionId, userData, query, context)
EscalateToHuman(sessionId, config, query) ==
  /\ dbClock < MaxDbOps
  /\ dbClock' = dbClock + 1
  /\ LET escalationRecord ==
           [NoRecord EXCEPT !.status = RoutedStatus(config),
                            !.method = EscalationMethod(config),
                            !.query = query, !.timestamp = dbClock]
     IN  IF Has(escalatedSessions, sessionId)
           THEN /\ escalatedSessions' = escalatedSessions
                /\ lastCall' = [op |-> "escalateToHuman", session |-> sessionId,
                                before |-> escalatedSessions,
                                result |-> escalatedSessions[sessionId]]
           ELSE /\ escalatedSessions' =
                     [escalatedSessions EXCEPT ![sessionId] = escalationRecord]
                /\ lastCall' = [op |-> "escalateToHuman", session |-> sessionId,
                                before |-> escalatedSessions,
                                result |-> escalationRecord]
  /\ UNCHANGED <<storeVars, turnVars, approvalRows, limiter>>

\* The updates of updateEscalationStatus: { status } or { assignedAgent }.
EscalationUpdates == {"in_progress", "assigned"}

\* { ...record, ...updates }
UpdatedRecord(record, updates) ==
  IF updates = "assigned" THEN [record EXCEPT !.assignedAgent = "agent1"]
  ELSE [record EXCEPT !.status = updates]

\* updateEscalationStatus(sessionId, updates); null is NoRecord.
UpdateEscalationStatus(sessionId, updates) ==
  /\ dbClock < MaxDbOps
  /\ dbClock' = dbClock + 1
  /\ LET updatedRecord == UpdatedRecord(escalatedSessions[sessionId], updates)
         found == Has(escalatedSessions, sessionId)
     IN  /\ escalatedSessions' =
               IF found THEN [escalatedSessions EXCEPT ![sessionId] = updatedRecord]
               ELSE escalatedSessions
         /\ lastCall' = [op |-> "updateEscalationStatus", session |-> sessionId,
                         before |-> escalatedSessions,
                         result |-> IF found THEN updatedRecord ELSE NoRecord]
  /\ UNCHANGED <<storeVars, turnVars, approvalRows, limiter>>

\* resolveEscalation(sessionId, resolution)
ResolveEscalation(sessionId) ==
  /\ dbClock < MaxDbOps
  /\ dbClock' = dbClock + 1
  /\ LET resolvedRecord ==
           [escalatedSessions[sessionId] EXCEPT !.status = "resolved",
                                                !.resolution = "notes",
                                                !.resolvedAt = dbClock]
         found == Has(escalatedSessions, sessionId)
     IN  /\ escalatedSessions' =
               IF found THEN [escalatedSessions EXCEPT ![sessionId] = resolvedRecord]
               ELSE escalatedSessions
         /\ lastCall' = [op |-> "resolveEscalation", session |-> sessionId,
                         before |-> escalatedSessions,
                         result |-> IF found THEN resolvedRecord ELSE NoRecord]
  /\ UNCHANGED <<storeVars, turnVars, approvalRows, limiter>>

(***************************************************************************)
(* ChatSessionDO                                                           *)
(***************************************************************************)
\* The metadata object of a session: the keys it has and their values (the
\* value of a key it does not have is a filler).
MetaKeys == {"created", "userId", "companyId", "escalated", "tags", "updated",
             "lastActivity"}

NoMeta ==
  [keys |-> {},
   at |-> [created |-> 0, userId |-> "", companyId |-> "", escalated |-> FALSE,
           tags |-> <<>>, updated |-> 0, lastActivity |-> 0]]

NoStorage == [history |-> <<>>, lastActivity |-> 0, metadata |-> NoMeta]

\* The locals of a request to a session object. before and after are the
\* object's storage around the request's put, and readAt, overlapped what
\* the request saw; the program does not keep them.
NoReq == [pc |-> "idle", kind |-> "none", session |-> "none", body |-> "",
          limit |-> 0, history |-> <<>>, messageId |-> 0, resp |-> <<>>,
          readAt |-> 0, overlapped |-> FALSE, updates |-> NoMeta, meta |-> NoMeta,
          before |-> NoStorage, after |-> NoStorage]

\* if (history.length > 100) history = history.slice(-100)
CapHistoryKeepOldest(history) ==
  IF Len(history) > MaxHistory THEN SubSeq(history, 1, MaxHistory) ELSE history

CapHistory(history) ==
  IF Len(history) > MaxHistory THEN JsSlice(history, 0 - MaxHistory) ELSE history

\* The history handleStoreMessage puts: the stored one, the message pushed, capped.
PushMessage(history, messageWithId) == CapHistory(Append(history, messageWithId))

\* The Durable Object's input gate: while a request of the object awaits a
\* storage operation, no other event is delivered to the object.
InStorage(r) ==
  req[r].pc \in {"get", "putHistory", "putActivity", "hget", "mget", "mact", "uget",
                 "uput"}

\* this.storage = state.storage: each object has its own storage, and a put
\* writes one key of it.
PutSharedStorage(store, s, key, value) ==
  [o \in DOMAIN store |-> [store[o] EXCEPT ![key] = value]]

PutStorage(store, s, key, value) == [store EXCEPT ![s][key] = value]

InputGateAlwaysOpen(s) == TRUE

InputGateOpen(s) == \A r \in Reqs : ~(req[r].session = s /\ InStorage(r))

\* Another request of session s has been delivered and is not yet answered.
InFlight(r, s) ==
  \E q \in Reqs \ {r} : req[q].session = s /\ req[q].pc \notin {"idle", "done"}

StoreStart ==
  /\ storage = [s \in Sessions |-> NoStorage]
  /\ log = [s \in Sessions |-> <<>>]
  /\ req = [r \in Reqs |-> NoReq]
  /\ arrivals = 0
  /\ nextId = 1
  /\ now = 1


\* fetch(): a request for .../store is delivered and handleStoreMessage runs up
\* to `await request.json()`.
FetchStore(r, s) ==
  /\ req[r].pc = "idle"
  /\ arrivals < MaxAppends
  /\ InputGateOpen(s)
  /\ arrivals' = arrivals + 1
  /\ req' = [req EXCEPT ![r] = [NoReq EXCEPT !.pc = "body", !.kind = "store",
                                             !.session = s, !.body = "text",
                                             !.overlapped = InFlight(r, s)]]
  /\ UNCHANGED <<storage, log, nextId, now, approvalVars, turnVars, limiter>>

\* request.json() resolves; the handler issues storage.get('history').
ReadBody(r) ==
  /\ req[r].pc = "body"
  /\ InputGateOpen(req[r].session)
  /\ req' = [req EXCEPT ![r].pc = "get"]
  /\ UNCHANGED <<storage, log, arrivals, nextId, now, approvalVars, turnVars, limiter>>

\* storage.get('history') resolves: the message gets its id, is pushed, the
\* history is capped and storage.put('history', history) is issued.
GetResolved(r) ==
  /\ req[r].pc = "get"
  /\ LET messageWithId == [role |-> "user", content |-> req[r].body, id |-> nextId]
     IN  req' = [req EXCEPT ![r].pc = "putHistory",
                            ![r].messageId = nextId,
                            ![r].history =
                               PushMessage(storage[req[r].session].history, messageWithId)]
  /\ nextId' = nextId + 1
  /\ UNCHANGED <<storage, log, arrivals, now, approvalVars, turnVars, limiter>>

\* storage.put('history', history) resolves; storage.put('lastActivity') is issued.
PutHistoryResolved(r) ==
  /\ req[r].pc = "putHistory"
  /\ LET s == req[r].session
         h == req[r].history
     IN  /\ storage' = PutStorage(storage, s, "history", h)
         /\ log' = [log EXCEPT ![s] = Append(@, h[Len(h)])]
  /\ req' = [req EXCEPT ![r].pc = "putActivity"]
  /\ UNCHANGED <<arrivals, nextId, now, approvalVars, turnVars, limiter>>

\* storage.put('lastActivity', now) resolves; the handler answers
\* { success: true, messageId }.
PutActivityResolved(r) ==
  /\ req[r].pc = "putActivity"
  /\ storage' = PutStorage(storage, req[r].session, "lastActivity", now)
  /\ now' = now + 1
  /\ req' = [req EXCEPT ![r].pc = "done", ![r].history = <<>>]
  /\ UNCHANGED <<log, arrivals, nextId, approvalVars, turnVars, limiter>>

\* fetch(): a request for .../history?limit=<limit> is delivered;
\* handleGetHistory parses the limit and issues storage.get('history').
FetchHistory(r, s, limit) ==
  /\ req[r].pc = "idle"
  /\ InputGateOpen(s)
  /\ req' = [req EXCEPT ![r] = [NoReq EXCEPT !.pc = "hget", !.kind = "history",
                                             !.session = s, !.limit = limit]]
  /\ UNCHANGED <<storage, log, arrivals, nextId, now, approvalVars, turnVars, limiter>>

\* history.slice(-limit)
LimitedHistory(history, limit) == JsSlice(history, 0 - limit)

\* storage.get('history') resolves; the handler answers the limited history.
HistoryResolved(r) ==
  /\ req[r].pc = "hget"
  /\ req' = [req EXCEPT ![r].pc = "done",
                         ![r].resp = LimitedHistory(storage[req[r].session].history,
                                                    req[r].limit),
                         ![r].readAt = Len(log[req[r].session])]
  /\ UNCHANGED <<storage, log, arrivals, nextId, now, approvalVars, turnVars, limiter>>

\* The metadata of a session that has none stored:
\* { created: now, userId: 'anonymous', companyId: '', escalated: false,
\*   tags: [] }
DefaultMetadata(time) ==
  [keys |-> {"created", "userId", "companyId", "escalated", "tags"},
   at |-> [NoMeta.at EXCEPT !.created = time, !.userId = "anonymous"]]

\* storage.get('metadata') || { ...default }
MetadataOrDefault(stored, time) ==
  IF stored.keys = {} THEN DefaultMetadata(time) ELSE stored

\* { ...a, ...b }
Replace(a, b) == b

Merge(a, b) ==
  [keys |-> a.keys \cup b.keys,
   at |-> [k \in MetaKeys |-> IF k \in b.keys THEN b.at[k] ELSE a.at[k]]]

\* { updated: now } and { lastActivity }
Stamp(time) == [keys |-> {"updated"}, at |-> [NoMeta.at EXCEPT !.updated = time]]

Activity(lastActivity) ==
  [keys |-> {"lastActivity"}, at |-> [NoMeta.at EXCEPT !.lastActivity = lastActivity]]

\* The bodies of the update-metadata requests.
MetadataUpdates ==
  { [keys |-> {"escalated"}, at |-> [NoMeta.at EXCEPT !.escalated = TRUE]],
    [keys |-> {"userId", "companyId"},
     at |-> [NoMeta.at EXCEPT !.userId = "u1", !.companyId = "c1"]],
    [keys |-> {"tags", "escalated"},
     at |-> [NoMeta.at EXCEPT !.tags = <<"vip">>]] }

\* fetch(): a request for .../metadata is delivered; handleGetMetadata issues
\* storage.get('metadata').
FetchMetadata(r, s) ==
  /\ req[r].pc = "idle"
  /\ InputGateOpen(s)
  /\ arrivals' = arrivals + 1
  /\ req' = [req EXCEPT ![r] = [NoReq EXCEPT !.pc = "mget", !.kind = "metadata",
                                             !.session = s]]
  /\ UNCHANGED <<storage, log, nextId, now, approvalVars, turnVars, limiter>>

\* storage.get('metadata') resolves; storage.get('lastActivity') is issued.
MetadataGetResolved(r) ==
  /\ req[r].pc = "mget"
  /\ req' = [req EXCEPT ![r].pc = "mact",
                         ![r].before = storage[req[r].session],
                         ![r].readAt = now,
                         ![r].meta = MetadataOrDefault(storage[req[r].session].metadata,
                                                       now)]
  /\ UNCHANGED <<storage, log, arrivals, nextId, now, approvalVars, turnVars, limiter>>

\* storage.get('lastActivity') resolves; the handler answers
\* { ...metadata, lastActivity }.
ActivityGetResolved(r) ==
  /\ req[r].pc = "mact"
  /\ req' = [req EXCEPT ![r].pc = "done",
                         ![r].meta = Merge(@, Activity(storage[req[r].session].lastActivity))]
  /\ now' = now + 1
  /\ UNCHANGED <<storage, log, arrivals, nextId, approvalVars, turnVars, limiter>>

\* fetch(): a request for .../update-metadata is delivered and
\* handleUpdateMetadata runs up to `await request.json()`.
FetchUpdateMetadata(r, s, updates) ==
  /\ req[r].pc = "idle"
  /\ InputGateOpen(s)
  /\ arrivals' = arrivals + 1
  /\ req' = [req EXCEPT ![r] = [NoReq EXCEPT !.pc = "ubody", !.kind = "update",
                                             !.session = s, !.updates = updates,
                                             !.overlapped = InFlight(r, s)]]
  /\ UNCHANGED <<storage, log, nextId, now, approvalVars, turnVars, limiter>>

\* request.json() resolves; the handler issues storage.get('metadata').
ReadUpdates(r) ==
  /\ req[r].pc = "ubody"
  /\ InputGateOpen(req[r].session)
  /\ req' = [req EXCEPT ![r].pc = "uget"]
  /\ UNCHANGED <<storage, log, arrivals, nextId, now, approvalVars, turnVars, limiter>>

\* storage.get('metadata') resolves: updatedMetadata is
\* { ...metadata, ...updates, updated: now } and storage.put is issued.
UpdateGetResolved(r) ==
  /\ req[r].pc = "uget"
  /\ LET metadata == MetadataOrDefault(storage[req[r].session].metadata, now)
     IN  req' = [req EXCEPT ![r].pc = "uput",
                            ![r].readAt = now,
                            ![r].meta = Merge(Merge(metadata, req[r].updates), Stamp(now))]
  /\ UNCHANGED <<storage, log, arrivals, nextId, now, approvalVars, turnVars, limiter>>

\* storage.put('metadata', updatedMetadata) resolves; the handler answers
\* { success: true }.
UpdatePutResolved(r) ==
  /\ req[r].pc = "uput"
  /\ storage' = PutStorage(storage, req[r].session, "metadata", req[r].meta)
  /\ req' = [req EXCEPT ![r].pc = "done",
                         ![r].before = storage[req[r].session],
                         ![r].after = storage'[req[r].session]]
  /\ now' = now + 1
  /\ UNCHANGED <<log, arrivals, nextId, approvalVars, turnVars, limiter>>

\* The caller consumes the response.
Release(r) ==
  /\ req[r].pc = "done"
  /\ req' = [req EXCEPT ![r] = NoReq]
  /\ UNCHANGED <<storage, log, arrivals, nextId, now, approvalVars, turnVars, limiter>>

(***************************************************************************)
(* Strings are sequences of characters; the program's string operations   *)
(* are computed on them.                                                   *)
(***************************************************************************)
UpperChars == <<"A", "B", "C", "D", "E", "F", "G", "H", "I", "J", "K", "L", "M",
                "N", "O", "P", "Q", "R", "S", "T", "U", "V", "W", "X", "Y", "Z">>

LowerChars == <<"a", "b", "c", "d", "e", "f", "g", "h", "i", "j", "k", "l", "m",
                "n", "o", "p", "q", "r", "s", "t", "u", "v", "w", "x", "y", "z">>

LowerChar(c) ==
  IF \E i \in 1..Len(UpperChars) : UpperChars[i] = c
    THEN LowerChars[CHOOSE i \in 1..Len(UpperChars) : UpperChars[i] = c]
    ELSE c

\* String.prototype.toLowerCase()
ToLowerCase(text) == [i \in 1..Len(text) |-> LowerChar(text[i])]

\* String.prototype.includes(keyword)
Includes(text, keyword) ==
  \E i \in 0..(Len(text) - Len(keyword)) :
    \A j \in 1..Len(keyword) : text[i + j] = keyword[j]

\* keywords.some(keyword => text.includes(keyword))
IncludesSome(text, keywords) ==
  \E k \in 1..Len(keywords) : Includes(text, keywords[k])


\* isTicketRequest
ticketKeywords ==
  <<
    <<"i", "s", "s", "u", "e">>,
    <<"p", "r", "o", "b", "l", "e", "m">>,
    <<"b", "u", "g">>,
    <<"e", "r", "r", "o", "r">>,
    <<"n", "o", "t", " ", "w", "o", "r", "k", "i", "n", "g">>,
    <<"b", "r", "o", "k", "e", "n">>,
    <<"f", "i", "x">>,
    <<"h", "e", "l", "p", " ", "m", "e", " ", "w", "i", "t", "h">>,
    <<"s", "u", "p", "p", "o", "r", "t", " ", "r", "e", "q", "u", "e", "s", "t">>,
    <<"c", "o", "m", "p", "l", "a", "i", "n", "t">>
  >>

\* generateFallbackResponse
greetingKeywords ==
  <<
    <<"h", "e", "l", "l", "o">>,
    <<"h", "i">>,
    <<"h", "e", "y">>,
    <<"g", "o", "o", "d", " ", "m", "o", "r", "n", "i", "n", "g">>,
    <<"g", "o", "o", "d", " ", "a", "f", "t", "e", "r", "n", "o", "o", "n">>,
    <<"g", "o", "o", "d", " ", "e", "v", "e", "n", "i", "n", "g">>
  >>

capabilityKeywords ==
  <<
    <<"w", "h", "a", "t", " ", "c", "a", "n", " ", "y", "o", "u", " ", "d", "o">>,
    <<"w", "h", "a", "t", " ", "d", "o", " ", "y", "o", "u", " ", "d", "o">>,
    <<"h", "e", "l", "p", " ", "m", "e">>,
    <<"c", "a", "p", "a", "b", "i", "l", "i", "t", "i", "e", "s">>
  >>

\* detectToolInvocation: toolKeywords, in the order of Object.entries
accountLookupKeywords ==
  <<
    <<"a", "c", "c", "o", "u", "n", "t">>,
    <<"u", "s", "e", "r">>,
    <<"c", "u", "s", "t", "o", "m", "e", "r">>,
    <<"p", "r", "o", "f", "i", "l", "e">>
  >>

orderStatusKeywords ==
  <<
    <<"o", "r", "d", "e", "r">>,
    <<"p", "u", "r", "c", "h", "a", "s", "e">>,
    <<"s", "h", "i", "p", "p", "i", "n", "g">>,
    <<"d", "e", "l", "i", "v", "e", "r", "y">>
  >>

billingKeywords ==
  <<
    <<"b", "i", "l", "l">>,
    <<"p", "a", "y", "m", "e", "n", "t">>,
    <<"i", "n", "v", "o", "i", "c", "e">>,
    <<"c", "h", "a", "r", "g", "e">>
  >>

technicalSupportKeywords ==
  <<
    <<"b", "u", "g">>,
    <<"e", "r", "r", "o", "r">>,
    <<"n", "o", "t", " ", "w", "o", "r", "k", "i", "n", "g">>,
    <<"b", "r", "o", "k", "e", "n">>
  >>

toolKeywords ==
  << [name |-> "account_lookup", keywords |-> accountLookupKeywords],
     [name |-> "order_status", keywords |-> orderStatusKeywords],
     [name |-> "billing", keywords |-> billingKeywords],
     [name |-> "technical_support", keywords |-> technicalSupportKeywords] >>


\* determineTools: toolsMap, in the order of Object.entries
toolsMap ==
  << [key |-> <<"a", "c", "c", "o", "u", "n", "t">>, tools |-> <<"accountLookup">>],
     [key |-> <<"b", "i", "l", "l", "i", "n", "g">>, tools |-> <<"billingCheck">>],
     [key |-> <<"t", "e", "c", "h", "n", "i", "c", "a", "l">>, tools |-> <<"technicalDiagnostic">>],
     [key |-> <<"p", "r", "o", "d", "u", "c", "t">>, tools |-> <<"productInfo">>] >>


\* The inbound messages of the model. "long" is 101 characters without a
\* keyword; "number" is a JSON body whose message is not a string.

MessageText ==
  [ hello |-> <<"h", "e", "l", "l", "o">>,
    order |-> <<"C", "h", "e", "c", "k", " ", "m", "y", " ", "O", "R", "D", "E", "R">>,
    accountError |-> <<"a", "c", "c", "o", "u", "n", "t", " ", "e", "r", "r", "o", "r">>,
    capability |-> <<"w", "h", "a", "t", " ", "c", "a", "n", " ", "y", "o", "u", " ", "d", "o">>,
    refund |-> <<"I", " ", "n", "e", "e", "d", " ", "a", " ", "r", "e", "f", "u", "n", "d", " ", "f", "o", "r", " ", "o", "r", "d", "e", "r", " ", "1", "2", "3">>,
    long |-> [i \in 1..(TicketLength + 1) |-> "z"],
    number |-> <<>> ]


Messages == DOMAIN MessageText

IsString(message) == message # "number"

\* Categories the ticket analysis can name.


CategoryText ==
  [ Account |-> <<"A", "c", "c", "o", "u", "n", "t", " ", "a", "c", "c", "e", "s", "s">>,
    Billing |-> <<"B", "i", "l", "l", "i", "n", "g">>,
    Uncategorized |-> <<"U", "n", "c", "a", "t", "e", "g", "o", "r", "i", "z", "e", "d">> ]

(***************************************************************************)
(* SupportAgent: the pure parts of processMessage.                         *)
(***************************************************************************)
\* isTicketRequest(message, history)
isTicketRequest(text) ==
  IncludesSome(ToLowerCase(text), ticketKeywords) \/ Len(text) > TicketLength

\* detectToolInvocation(message): the names of the registered tools one of
\* whose keywords the lower-cased message includes, in toolKeywords order.
detectToolInvocation(text, registry) ==
  IF registry = {}
    THEN <<>>
    ELSE LET hit(entry) == /\ entry.name \in registry
                           /\ IncludesSome(ToLowerCase(text), entry.keywords)
             entries == SelectSeq(toolKeywords, hit)
         IN  [i \in 1..Len(entries) |-> entries[i].name]

\* What a tool's handler or webhook does when it is called.
ToolOutcomes == {"result", "throws", "httpError", "noMethod"}

IsError(result) == result # "result"

\* registerTools: tool.execute(params). The handler's or webhook's failure is
\* caught inside execute and returned as { error }.
Execute(outcome) ==
  CASE outcome = "result" -> [thrown |-> FALSE, value |-> "result"]
    [] outcome = "noMethod" -> [thrown |-> FALSE, value |-> "error: method not defined"]
    [] OTHER -> [thrown |-> FALSE, value |-> "error: execution failed"]

\* results[name] = value, on an object that keeps its keys in insertion order.
SetKey(results, name, value) ==
  IF \E i \in 1..Len(results) : results[i].name = name
    THEN [i \in 1..Len(results) |->
            IF results[i].name = name THEN [name |-> name, value |-> value]
            ELSE results[i]]
    ELSE Append(results, [name |-> name, value |-> value])

\* Object.keys(results)
Keys(results) == [i \in 1..Len(results) |-> results[i].name]

Range(seq) == {seq[i] : i \in 1..Len(seq)}

\* The loop of executeTools and of resolveTicket over the tools from position
\* i on: every registered tool is executed; one that throws gets an { error }
\* entry and the loop goes on. `run` collects the results and the names of the
\* tools whose execute was called.
RECURSIVE ToolLoopStopsAtError(_, _, _, _, _)
ToolLoopStopsAtError(tools, i, registry, outcome, run) ==
  IF i > Len(tools)
    THEN run
    ELSE IF tools[i] \notin registry
      THEN ToolLoopStopsAtError(tools, i + 1, registry, outcome, run)
      ELSE LET got == Execute(outcome[tools[i]])
               next == [results |-> SetKey(run.results, tools[i], got.value),
                        invoked |-> Append(run.invoked, tools[i])]
           IN  IF IsError(got.value)
                 THEN next
                 ELSE ToolLoopStopsAtError(tools, i + 1, registry, outcome, next)

RECURSIVE ToolLoop(_, _, _, _, _)
ToolLoop(tools, i, registry, outcome, run) ==
  IF i > Len(tools)
    THEN run
    ELSE IF tools[i] \notin registry
      THEN ToolLoop(tools, i + 1, registry, outcome, run)
      ELSE LET got == Execute(outcome[tools[i]])
               value == IF got.thrown THEN "error: failed to execute" ELSE got.value
           IN  ToolLoop(tools, i + 1, registry, outcome,
                        [results |-> SetKey(run.results, tools[i], value),
                         invoked |-> Append(run.invoked, tools[i])])

NoRun == [results |-> <<>>, invoked |-> <<>>]

\* executeTools(detectedTools, message)
executeTools(detectedTools, registry, outcome) ==
  ToolLoop(detectedTools, 1, registry, outcome, NoRun)

(***************************************************************************)
(* TicketResolver                                                          *)
(***************************************************************************)
\* What env.AI.run gives back to analyzeTicket: it throws, or it returns an
\* object whose response is missing, is a string, or is an object with a
\* content string. Of the content, the model keeps what the four patterns
\* capture: the category and the actions (the rest of their line), the
\* approval word and the confidence digits; "none" is a pattern without match.
AnalysisOutputs ==
  [kind : {"content"}, category : {"none", "Account", "Billing"},
   approval : {"none", "yes", "no", "YES"}, confidence : {"none", "zero", "ninety"},
   actions : {"none", "some"}]
  \cup [kind : {"throws", "string", "missing"}, category : {"none"},
        approval : {"none"}, confidence : {"none"}, actions : {"none"}]

\* The outputs that the turn and the resolver calls are explored with.
AnalysisReplies ==
  {reply \in AnalysisOutputs :
     /\ reply.kind # "missing"
     /\ reply.approval # "YES"
     /\ reply.confidence = "none"
     /\ reply.actions = "none"}

NoAnalysis == [kind |-> "throws", category |-> "none", approval |-> "none",
               confidence |-> "none", actions |-> "none"]

\* The captured approval word and confidence digits.
ApprovalText ==
  [none |-> <<>>, yes |-> <<"y", "e", "s">>, no |-> <<"n", "o">>,
   YES |-> <<"Y", "E", "S">>]

ConfidenceDigits == [none |-> <<>>, zero |-> <<0>>, ninety |-> <<9, 0>>]

\* parseInt of a string of decimal digits
RECURSIVE ParseInt(_)
ParseInt(digits) ==
  IF digits = <<>> THEN 0
  ELSE 10 * ParseInt(SubSeq(digits, 1, Len(digits) - 1)) + digits[Len(digits)]

\* confidenceMatch ? parseInt(confidenceMatch[1]) : 50
DefaultConfidence == 50

\* analyzeTicket: analysis.response.content is matched against the patterns;
\* a response that is missing or is a string has no content, and matching it
\* throws.
analyzeTicket(reply) ==
  IF reply.kind # "content"
    THEN [thrown |-> TRUE, category |-> "Uncategorized", requiresApproval |-> TRUE,
          suggestedActions |-> "No specific actions suggested",
          confidence |-> DefaultConfidence]
    ELSE [thrown |-> FALSE,
          category |-> IF reply.category = "none" THEN "Uncategorized"
                       ELSE reply.category,
          requiresApproval |-> IF reply.approval = "none" THEN TRUE
                               ELSE ToLowerCase(ApprovalText[reply.approval])
                                      = <<"y", "e", "s">>,
          suggestedActions |-> IF reply.actions = "none"
                                 THEN "No specific actions suggested"
                               ELSE reply.actions,
          confidence |-> IF reply.confidence = "none" THEN DefaultConfidence
                         ELSE ParseInt(ConfidenceDigits[reply.confidence])]

\* determineTools(analysis): the tools of the first toolsMap key that the
\* lower-cased category includes.
determineTools(analysis) ==
  LET category == ToLowerCase(CategoryText[analysis.category])
      hits == SelectSeq(toolsMap, LAMBDA entry : Includes(category, entry.key))
  IN  IF Len(hits) > 0 THEN hits[1].tools ELSE <<>>

ResolveReplies == {"throws", "string", "emptyContent", "content"}

\* resolution.response.content
ResolutionMessage(reply) ==
  CASE reply = "content" -> "resolution text"
    [] reply = "emptyContent" -> ""
    [] OTHER -> "undefined"

\* resolveTicket(ticket, analysis, approved, companyId). The result says
\* whether the call returned or threw, what it returned, which tools it
\* executed, and how often it called the generation service and wrote to
\* the vector store.
ResolveApproved(analysis, registry, outcome, reply, storeOk) ==
  LET run == ToolLoop(determineTools(analysis), 1, registry, outcome, NoRun)
      base == [thrown |-> FALSE, status |-> "none", message |-> "undefined",
               actions |-> run.results, invoked |-> run.invoked,
               aiCalls |-> 1, memWrites |-> 0]
  IN  IF reply = "throws"
        THEN [base EXCEPT !.thrown = TRUE]
        ELSE IF ~storeOk
          THEN [base EXCEPT !.thrown = TRUE]
          ELSE [base EXCEPT !.status = "resolved",
                            !.message = ResolutionMessage(reply),
                            !.memWrites = 1]

resolveTicketUngated(analysis, approved, registry, outcome, reply, storeOk) ==
  ResolveApproved(analysis, registry, outcome, reply, storeOk)

resolveTicket(analysis, approved, registry, outcome, reply, storeOk) ==
  IF analysis.requiresApproval /\ ~approved
    THEN [thrown |-> FALSE, status |-> "pending_approval",
          message |-> "Ticket resolution requires approval",
          actions |-> <<>>, invoked |-> <<>>, aiCalls |-> 0, memWrites |-> 0]
    ELSE ResolveApproved(analysis, registry, outcome, reply, storeOk)

(***************************************************************************)
(* SupportAgent.processMessage                                             *)
(***************************************************************************)
\* JavaScript's a || b on strings: "" and undefined are falsy.
Falsy(value) == value \in {"", "undefined"}

JsOr(a, b) == IF Falsy(a) THEN b ELSE a

NoTicket == [status |-> "none", message |-> "undefined", approvalId |-> "undefined"]

FaqOutcomes == {"throws", "none", "relevant"}

\* generateFallbackResponse(message, faqResponse, ticketResolution)
generateFallbackResponse(text, faq, ticketResolution) ==
  IF ticketResolution # NoTicket /\ ~Falsy(ticketResolution.message)
    THEN ticketResolution.message
  ELSE IF faq = "relevant"
    THEN "Based on our FAQ: <answer>"
  ELSE IF IncludesSome(ToLowerCase(text), greetingKeywords)
    THEN "Hello! I'm <agentName>. How can I help you today?"
  ELSE IF IncludesSome(ToLowerCase(text), capabilityKeywords)
    THEN "I'm here to help you with <companyName> products and services."
  ELSE "Thank you for your message. I'm here to help!"

\* What env.AI.run gives the main generation call.
MainReplies == {"throws", "string", "emptyString", "object", "text", "nothing"}

ReplyFields(reply) ==
  CASE reply = "string" -> [response |-> "ai reply", text |-> "undefined"]
    [] reply = "emptyString" -> [response |-> "", text |-> "undefined"]
    [] reply = "object" -> [response |-> "[object Object]", text |-> "undefined"]
    [] reply = "text" -> [response |-> "undefined", text |-> "ai text"]
    [] OTHER -> [response |-> "undefined", text |-> "undefined"]

\* response.response || response.text || 'I apologize, ...'
GeneratedWithoutDefault(reply) ==
  JsOr(ReplyFields(reply).response, ReplyFields(reply).text)

Generated(reply) ==
  JsOr(JsOr(ReplyFields(reply).response, ReplyFields(reply).text),
       "I apologize, but I encountered an issue generating a response.")

\* The ticket step: analyzeTicket, then resolveTicket(..., true, ...) when the
\* analysis does not require approval; any throw leaves no resolution.
TicketStep(text, registry, outcome, analysisReply, resolveReply, storeOk) ==
  LET none == [resolution |-> NoTicket, invoked |-> <<>>, actions |-> <<>>,
               analysis |-> "none"]
      analysis == analyzeTicket(analysisReply)
  IN  IF ~isTicketRequest(text)
        THEN none
      ELSE IF analysis.thrown
        THEN [none EXCEPT !.analysis = "thrown"]
      ELSE IF analysis.requiresApproval
        THEN [none EXCEPT !.analysis = "approval"]
        ELSE LET resolved == resolveTicket(analysis, TRUE, registry, outcome,
                                           resolveReply, storeOk)
             IN  IF resolved.thrown
                   THEN [none EXCEPT !.invoked = resolved.invoked,
                                     !.actions = resolved.actions,
                                     !.analysis = "auto"]
                   ELSE [resolution |-> [status |-> resolved.status,
                                         message |-> resolved.message,
                                         approvalId |-> "undefined"],
                         invoked |-> resolved.invoked,
                         actions |-> resolved.actions,
                         analysis |-> "auto"]

\* The tools a step can execute, and what each does when called.
Outcomes(tools, registry) == [Range(tools) \cap registry -> ToolOutcomes]

NoResponse == [message |-> "", sessionId |-> "none", toolsUsed |-> <<>>,
               ticket |-> "none", approvalId |-> "undefined", error |-> FALSE]

\* The locals of a processMessage call. knowledgeOutcome, analysis,
\* ticketActions, ticketOutcome, toolOutcome, attempted, tried (the writes
\* that were started) and stored (those that succeeded) record what happened
\* during the call; the program does not keep them.
NoTurn == [pc |-> "idle", turnNo |-> 0, company |-> "none", message |-> "none",
           session |-> "none",
           registry |-> {}, bound |-> FALSE, history |-> <<>>,
           knowledgeOutcome |-> "none", analysis |-> "none",
           relevantKnowledge |-> "", ticketResolution |-> NoTicket,
           ticketActions |-> <<>>, ticketOutcome |-> <<>>,
           faqResponse |-> "none", toolResults |-> <<>>, toolOutcome |-> <<>>,
           aiResponse |-> "", generationFailed |-> FALSE, attempted |-> {},
           tried |-> {}, stored |-> {}, response |-> NoResponse]

NoLibCall == [fn |-> "none"]

NoResolverCall ==
  [called |-> FALSE, analysis |-> analyzeTicket(NoAnalysis), approved |-> FALSE,
   registry |-> {}, result |-> resolveTicket(analyzeTicket(NoAnalysis), FALSE, {},
                                             <<>>, "content", TRUE)]

TurnStart ==
  /\ turn = [t \in Turns |-> NoTurn]
  /\ turnCount = 0
  /\ resolverCall = NoResolverCall

\* A caller of TicketResolver.resolveTicket(ticket, analysis, approved,
\* companyId) with an analysis that analyzeTicket produced.
ResolveCall(analysisReply, approved, registry, resolveReply, storeOk) ==
  LET analysis == analyzeTicket(analysisReply)
  IN  /\ ~analysis.thrown
      /\ \E outcome \in Outcomes(determineTools(analysis), registry) :
            resolverCall' = [called |-> TRUE, analysis |-> analysis,
                             approved |-> approved, registry |-> registry,
                             result |-> resolveTicket(analysis, approved, registry,
                                                      outcome, resolveReply, storeOk)]
      /\ UNCHANGED <<storeVars, approvalVars, turn, turnCount, libCall, vectorIndex, limiter>>

\* sessionObject.fetch(.../store): the session object appends the message
\* (handleStoreMessage as a whole: the object serialises its requests).
DoStore(s, role, content, turnNo, company) ==
  LET messageWithId == [role |-> role, content |-> content, timestamp |-> now,
                        turn |-> turnNo, company |-> company, id |-> nextId]
  IN  /\ storage' = [storage EXCEPT ![s].history = PushMessage(@, messageWithId),
                                    ![s].lastActivity = now]
      /\ log' = [log EXCEPT ![s] = Append(@, messageWithId)]
      /\ nextId' = nextId + 1
      /\ now' = now + 1

\* The history processMessage builds itself when the session store failed.
ManualHistory(t) ==
  <<[role |-> "user", content |-> turn[t].message, timestamp |-> now,
     turn |-> turn[t].turnNo, company |-> turn[t].company, id |-> 0]>>

\* POST /api/chat: a SupportAgent is built for the request and processMessage
\* starts.
Receive(t, company, message, s, registry, bound) ==
  /\ turn[t].pc = "idle"
  /\ turnCount' = turnCount + 1
  /\ turn' = [turn EXCEPT ![t] = [NoTurn EXCEPT !.pc = "received",
                                                !.turnNo = turnCount + 1,
                                                !.company = company,
                                                !.message = message, !.session = s,
                                                !.registry = registry,
                                                !.bound = bound]]
  /\ UNCHANGED <<storage, log, req, arrivals, nextId, now, resolverCall, libCall, vectorIndex, approvalVars, limiter>>

\* The user turn is stored in the session object; a failure is caught and
\* the history is the message alone. Without a CHAT_SESSIONS binding the
\* session is skipped.
StoreUserMessage(t, ok) ==
  /\ turn[t].pc = "received"
  /\ IF turn[t].bound /\ ok
       THEN /\ DoStore(turn[t].session, "user", turn[t].message, turn[t].turnNo,
                       turn[t].company)
            /\ turn' = [turn EXCEPT ![t].pc = "userStored",
                                    ![t].stored = @ \cup {"user"}]
       ELSE /\ turn' = [turn EXCEPT ![t].pc = "historyLoaded",
                                    ![t].history = IF turn[t].bound
                                                     THEN ManualHistory(t) ELSE <<>>]
            /\ UNCHANGED <<storage, log, nextId, now>>
  /\ UNCHANGED <<req, arrivals, turnCount, resolverCall, libCall, vectorIndex, approvalVars, limiter>>

\* The history is fetched from the session object (default limit).
LoadHistory(t, ok) ==
  /\ turn[t].pc = "userStored"
  /\ turn' = [turn EXCEPT ![t].pc = "historyLoaded",
                          ![t].history =
                             IF ok THEN LimitedHistory(storage[turn[t].session].history,
                                                       DefaultLimit)
                             ELSE ManualHistory(t)]
  /\ UNCHANGED <<storage, log, req, arrivals, nextId, now, turnCount, resolverCall, libCall, vectorIndex, approvalVars, limiter>>

\* What the embedding call and the index query of a knowledge search do.
KnowledgeOutcomes == {"embedThrows", "queryThrows", "found"}

\* retrieveRelevantKnowledge(message): the joined texts of the matches; the
\* catch around the embedding call and the query returns the empty string.
retrieveRelevantKnowledge(outcome) ==
  IF outcome = "found" THEN "kb text" ELSE ""

\* processMessage calls retrieveRelevantKnowledge inside a try / catch.
RetrieveKnowledge(t, outcome) ==
  /\ turn[t].pc = "historyLoaded"
  /\ turn' = [turn EXCEPT ![t].pc = "knowledge",
                          ![t].knowledgeOutcome = outcome,
                          ![t].relevantKnowledge = retrieveRelevantKnowledge(outcome)]
  /\ UNCHANGED <<storage, log, req, arrivals, nextId, now, turnCount, resolverCall, libCall, vectorIndex, approvalVars, limiter>>

\* The catch at the end of processMessage: the apology, no tools.
CriticalResponse(t) ==
  [message |-> "I apologize, but I'm experiencing technical difficulties.",
   sessionId |-> turn[t].session, toolsUsed |-> <<>>, ticket |-> "none",
   approvalId |-> "undefined", error |-> TRUE]

\* isTicketRequest and the ticket step. A message that is not a string makes
\* isTicketRequest throw, which ends the turn in the outer catch.
ProcessTicket(t, analysisReply, resolveReply, storeOk) ==
  /\ turn[t].pc = "knowledge"
  /\ IF ~IsString(turn[t].message)
       THEN turn' = [turn EXCEPT ![t].pc = "responded",
                                 ![t].response = CriticalResponse(t)]
       ELSE \E outcome \in Outcomes(<<"accountLookup", "billingCheck",
                                       "technicalDiagnostic", "productInfo">>,
                                     turn[t].registry) :
              LET ticket == TicketStep(MessageText[turn[t].message], turn[t].registry,
                                       outcome, analysisReply, resolveReply, storeOk)
              IN  turn' = [turn EXCEPT ![t].pc = "ticket",
                                       ![t].ticketResolution = ticket.resolution,
                                       ![t].analysis = ticket.analysis,
                                       ![t].ticketActions = ticket.actions,
                                       ![t].ticketOutcome =
                                          [n \in Range(ticket.invoked) |-> outcome[n]],
                                       ![t].attempted = @ \cup Range(ticket.invoked)]
  /\ UNCHANGED <<storage, log, req, arrivals, nextId, now, turnCount, resolverCall, libCall, vectorIndex, approvalVars, limiter>>

\* reasonWithFAQs, unless the ticket step resolved the turn.
ProcessFaq(t, faq) ==
  /\ turn[t].pc = "ticket"
  /\ turn' = [turn EXCEPT ![t].pc = "faq",
                          ![t].faqResponse =
                             IF turn[t].ticketResolution = NoTicket /\ faq # "throws"
                               THEN faq ELSE "none"]
  /\ UNCHANGED <<storage, log, req, arrivals, nextId, now, turnCount, resolverCall, libCall, vectorIndex, approvalVars, limiter>>

\* detectToolInvocation and executeTools.
ProcessTools(t) ==
  /\ turn[t].pc = "faq"
  /\ LET detected == detectToolInvocation(MessageText[turn[t].message],
                                          turn[t].registry)
     IN  \E outcome \in Outcomes(detected, turn[t].registry) :
           LET run == IF Len(detected) > 0
                        THEN executeTools(detected, turn[t].registry, outcome)
                        ELSE NoRun
           IN  turn' = [turn EXCEPT ![t].pc = "tools",
                                    ![t].toolResults = run.results,
                                    ![t].toolOutcome = outcome,
                                    ![t].attempted = @ \cup Range(run.invoked)]
  /\ UNCHANGED <<storage, log, req, arrivals, nextId, now, turnCount, resolverCall, libCall, vectorIndex, approvalVars, limiter>>

\* env.AI.run for the reply; generateFallbackResponse when it throws.
Generate(t, reply) ==
  /\ turn[t].pc = "tools"
  /\ turn' = [turn EXCEPT ![t].pc = "generated",
                          ![t].generationFailed = (reply = "throws"),
                          ![t].aiResponse =
                             IF reply = "throws"
                               THEN generateFallbackResponse(
                                      MessageText[turn[t].message],
                                      turn[t].faqResponse, turn[t].ticketResolution)
                               ELSE Generated(reply)]
  /\ UNCHANGED <<storage, log, req, arrivals, nextId, now, turnCount, resolverCall, libCall, vectorIndex, approvalVars, limiter>>

\* The try / catch around the assistant store: the locals after it. A
\* failure is logged and the turn goes on.
PersistResponseUncaught(t, ok) ==
  IF turn[t].bound /\ ~ok
    THEN [turn[t] EXCEPT !.pc = "responded", !.tried = @ \cup {"assistant"},
                         !.response = CriticalResponse(t)]
    ELSE [turn[t] EXCEPT !.pc = "persisted",
                         !.tried = IF turn[t].bound THEN @ \cup {"assistant"} ELSE @,
                         !.stored = IF turn[t].bound THEN @ \cup {"assistant"} ELSE @]

PersistResponse(t, ok) ==
  [turn[t] EXCEPT !.pc = "persisted",
                  !.tried = IF turn[t].bound THEN @ \cup {"assistant"} ELSE @,
                  !.stored = IF turn[t].bound /\ ok THEN @ \cup {"assistant"} ELSE @]

\* The assistant turn is stored in the session object, best effort.
StoreResponse(t, ok) ==
  /\ turn[t].pc = "generated"
  /\ IF turn[t].bound /\ ok
       THEN DoStore(turn[t].session, "assistant", turn[t].aiResponse,
                    turn[t].turnNo, turn[t].company)
       ELSE UNCHANGED <<storage, log, nextId, now>>
  /\ turn' = [turn EXCEPT ![t] = PersistResponse(t, ok)]
  /\ UNCHANGED <<req, arrivals, turnCount, resolverCall, libCall, vectorIndex, approvalVars, limiter>>

\* responseObject
ResponseObject(t) ==
  [message |-> turn[t].aiResponse, sessionId |-> turn[t].session,
   toolsUsed |-> Keys(turn[t].toolResults),
   ticket |-> IF turn[t].ticketResolution = NoTicket THEN "none"
              ELSE turn[t].ticketResolution.status,
   approvalId |-> IF turn[t].ticketResolution.status = "pending_approval"
                    THEN turn[t].ticketResolution.approvalId ELSE "undefined",
   error |-> FALSE]

\* storeInteraction, best effort, and the response is returned.
StoreInteraction(t, ok) ==
  /\ turn[t].pc = "persisted"
  /\ turn' = [turn EXCEPT ![t].pc = "responded",
                          ![t].tried = @ \cup {"interaction"},
                          ![t].stored = IF ok THEN @ \cup {"interaction"} ELSE @,
                          ![t].response = ResponseObject(t)]
  /\ UNCHANGED <<storage, log, req, arrivals, nextId, now, turnCount, resolverCall, libCall, vectorIndex, approvalVars, limiter>>

\* The response has been sent; the request is over.
Finish(t) ==
  /\ turn[t].pc = "responded"
  /\ turn' = [turn EXCEPT ![t] = NoTurn]
  /\ UNCHANGED <<storage, log, req, arrivals, nextId, now, turnCount, resolverCall, libCall, vectorIndex, approvalVars, limiter>>

(***************************************************************************)
(* EscalationManager.shouldEscalate                                        *)
(***************************************************************************)
escalationKeywords ==
  <<
    <<"s", "p", "e", "a", "k", " ", "t", "o", " ", "h", "u", "m", "a", "n">>,
    <<"t", "a", "l", "k", " ", "t", "o", " ", "a", "g", "e", "n", "t">>,
    <<"s", "p", "e", "a", "k", " ", "t", "o", " ", "a", "g", "e", "n", "t">>,
    <<"h", "u", "m", "a", "n", " ", "a", "g", "e", "n", "t">>,
    <<"r", "e", "a", "l", " ", "p", "e", "r", "s", "o", "n">>,
    <<"c", "u", "s", "t", "o", "m", "e", "r", " ", "s", "e", "r", "v", "i", "c", "e">>,
    <<"s", "u", "p", "e", "r", "v", "i", "s", "o", "r">>,
    <<"m", "a", "n", "a", "g", "e", "r">>
  >>

frustrationKeywords ==
  <<
    <<"n", "o", "t", " ", "w", "o", "r", "k", "i", "n", "g">>,
    <<"d", "o", "e", "s", "n", "'", "t", " ", "w", "o", "r", "k">>,
    <<"w", "r", "o", "n", "g">>,
    <<"i", "n", "c", "o", "r", "r", "e", "c", "t">>,
    <<"f", "r", "u", "s", "t", "r", "a", "t", "e", "d">>,
    <<"a", "n", "n", "o", "y", "e", "d">>
  >>

\* The queries of the model: with and without a keyword, in upper case, with
\* two and three question marks, of 200 and 201 characters.
EscalationText ==
  [ human |-> <<"I", " ", "w", "a", "n", "t", " ", "t", "o", " ", "s", "p", "e", "a", "k", " ", "t", "o", " ", "a", " ", "h", "u", "m", "a", "n">>,
    thanks |-> <<"t", "h", "a", "n", "k", "s">>,
    agent |-> <<"l", "e", "t", " ", "m", "e", " ", "t", "a", "l", "k", " ", "t", "o", " ", "a", "g", "e", "n", "t">>,
    manager |-> <<"G", "e", "t", " ", "m", "e", " ", "y", "o", "u", "r", " ", "M", "A", "N", "A", "G", "E", "R">>,
    twoQuestions |-> <<"w", "h", "y", "?", " ", "h", "o", "w", "?">>,
    threeQuestions |-> <<"w", "h", "y", "?", " ", "h", "o", "w", "?", " ", "w", "h", "e", "n", "?">>,
    wrong |-> <<"t", "h", "i", "s", " ", "i", "s", " ", "w", "r", "o", "n", "g">>,
    refund |-> <<"I", " ", "n", "e", "e", "d", " ", "a", " ", "r", "e", "f", "u", "n", "d", " ", "f", "o", "r", " ", "o", "r", "d", "e", "r", " ", "1", "2", "3">>,
    atLength |-> [i \in 1..EscalationLength |-> "z"],
    overLength |-> [i \in 1..(EscalationLength + 1) |-> "z"] ]

EscalationQueries == DOMAIN EscalationText

\* The messages of a session history: a user message without and with
\* frustration vocabulary, and an assistant message with it.
HistoryMessage ==
  [ plain |-> [role |-> "user", content |-> <<"o", "k", " ", "t", "h", "a", "n", "k", "s">>],
    frustrated |-> [role |-> "user", content |-> <<"I", "t", " ", "i", "s", " ", "s", "t", "i", "l", "l", " ", "N", "O", "T", " ", "W", "O", "R", "K", "I", "N", "G">>],
    assistant |-> [role |-> "assistant", content |-> <<"S", "o", "r", "r", "y", ",", " ", "t", "h", "a", "t", " ", "w", "a", "s", " ", "i", "n", "c", "o", "r", "r", "e", "c", "t">>] ]

HistoryKinds == DOMAIN HistoryMessage

\* Histories longer than the recent window, whose first message is outside it.
LongHistories ==
  {<<"frustrated">> \o tail : tail \in [1..RecentMessages -> {"plain", "assistant"}]}

\* The contexts of the model: {} (no sessionHistory) or a history.
EscalationContexts ==
  {[hasHistory |-> FALSE, kinds |-> <<>>]}
  \cup {[hasHistory |-> TRUE, kinds |-> kinds] :
          kinds \in (UNION {[1..n -> HistoryKinds] : n \in 0..MaxEscalationHistory})
                    \cup LongHistories}

sessionHistory(context) ==
  [i \in 1..Len(context.kinds) |-> HistoryMessage[context.kinds[i]]]

\* (query.match(/\?/g) || []).length
QuestionMarks(text) == Cardinality({i \in 1..Len(text) : text[i] = "?"})

\* shouldEscalate(query, context)
shouldEscalate(query, context) ==
  IF IncludesSome(ToLowerCase(query), escalationKeywords)
    THEN TRUE
  ELSE IF Len(query) > EscalationLength
    THEN TRUE
  ELSE IF QuestionMarks(query) >= QuestionMarkLimit
    THEN TRUE
  ELSE IF context.hasHistory
    THEN LET recentMessages == JsSlice(sessionHistory(context), 0 - RecentMessages)
             userMessages == SelectSeq(recentMessages, LAMBDA msg : msg.role = "user")
             hasFrustration ==
               \E k \in 1..Len(frustrationKeywords) :
                 \E i \in 1..Len(userMessages) :
                   Includes(ToLowerCase(userMessages[i].content), frustrationKeywords[k])
         IN  hasFrustration /\ Len(userMessages) >= FrustratedTurns
  ELSE FALSE

\* The calls escalationManager.shouldEscalate(query, context) about to be made.
EscalationCalls ==
  [fn : {"shouldEscalate"}, query : EscalationQueries, context : EscalationContexts,
   returned : {FALSE}, result : {FALSE}]

\* shouldEscalate returns to its caller.
ShouldEscalateCall ==
  /\ libCall.fn = "shouldEscalate"
  /\ ~libCall.returned
  /\ libCall' = [libCall EXCEPT !.returned = TRUE,
                                !.result = shouldEscalate(EscalationText[libCall.query],
                                                          libCall.context)]
  /\ UNCHANGED <<storeVars, approvalVars, turn, turnCount, resolverCall, vectorIndex, limiter>>

(***************************************************************************)
(* VectorManager and the namespaces of env.VECTORIZE_INDEX                 *)
(***************************************************************************)
\* Company ids, as strings.
TenantId ==
  [ c1 |-> <<"c", "1">>,
    company |-> <<"c", "o", "m", "p", "a", "n", "y">>,
    faqs |-> <<"f", "a", "q", "s">> ]

Tenants == DOMAIN TenantId

Customers == {"u1", "u2"}

\* companyConfig.vectorNamespace: not set, or a string the company chose.
ConfiguredNamespace ==
  [ undefined |-> <<>>,
    knowledge |-> <<"c", "1", "-", "k", "n", "o", "w", "l", "e", "d", "g", "e">>,
    other |-> <<"c", "1", "-", "f", "a", "q", "s">> ]

Configurations == DOMAIN ConfiguredNamespace

faqNamespace == <<"f", "a", "q", "s">>

ticketNamespace == <<"t", "i", "c", "k", "e", "t", "s">>

interactionNamespace == <<"i", "n", "t", "e", "r", "a", "c", "t", "i", "o", "n", "s">>

\* `${companyId}-${suffix}`
SharedNamespace(companyId, suffix) == suffix

CompanyNamespace(companyId, suffix) == TenantId[companyId] \o <<"-">> \o suffix

\* companyConfig.vectorNamespace || `company-${companyConfig.id}`
vectorNamespace(companyId, configured) ==
  IF Len(ConfiguredNamespace[configured]) > 0
    THEN ConfiguredNamespace[configured]
    ELSE <<"c", "o", "m", "p", "a", "n", "y", "-">> \o TenantId[companyId]

\* What the embedding call and the index query of a search do.
SearchOutcomes == {"embedThrows", "queryThrows", "ok"}

\* vectorizeIndex.query(embedding, { namespace, topK }): the vectors of the
\* namespace; any topK of them when there are more.
Matching(index, namespace) == {item \in index : item.namespace = namespace}

TopMatches(matches, limit) ==
  {top \in SUBSET matches : Cardinality(top) = Min(limit, Cardinality(matches))}

\* searchKnowledge(query, namespace, limit, options): options is not used;
\* a failure of the embedding call or of the query is caught and the result
\* is empty.
searchKnowledgeRethrows(index, namespace, outcome) ==
  IF outcome = "ok"
    THEN [thrown |-> FALSE, results |-> Matching(index, namespace)]
    ELSE [thrown |-> TRUE, results |-> {}]

searchKnowledge(index, namespace, outcome) ==
  IF outcome = "ok"
    THEN [thrown |-> FALSE, results |-> Matching(index, namespace)]
    ELSE [thrown |-> FALSE, results |-> {}]

\* storeKnowledge(text, metadata, namespace): the vector is inserted; a
\* failure is rethrown. `tenant` is the company the caller acted for.
StoreKnowledge(fn, item, ok) ==
  /\ Cardinality(vectorIndex) < MaxVectors
  /\ vectorIndex' = IF ok THEN vectorIndex \cup {item} ELSE vectorIndex
  /\ libCall' = [fn |-> fn, tenant |-> item.tenant, customer |-> item.customerId,
                 outcome |-> IF ok THEN "ok" ELSE "insertThrows", thrown |-> ~ok,
                 results |-> {}]
  /\ UNCHANGED <<storeVars, approvalVars, turn, turnCount, resolverCall, limiter>>

\* faqManager.trainWithFAQs(faqItems, companyId)
TrainWithFAQs(companyId, ok) ==
  StoreKnowledge("trainWithFAQs",
                 [namespace |-> CompanyNamespace(companyId, faqNamespace),
                  type |-> "faq", tenant |-> companyId, customerId |-> "none"], ok)

\* The vector that storeTicketResolution inserts for a ticket of a customer.
TicketResolutionItem(companyId, customerId) ==
  [namespace |-> CompanyNamespace(companyId, ticketNamespace),
   type |-> "ticket-resolution", tenant |-> companyId, customerId |-> customerId]

\* ticketResolver.storeTicketResolution(..., companyId)
StoreTicketResolution(companyId, customerId, ok) ==
  StoreKnowledge("storeTicketResolution", TicketResolutionItem(companyId, customerId), ok)

\* vectorManager.storeInteraction(customerId, ..., companyId)
StoreCustomerInteraction(companyId, customerId, ok) ==
  StoreKnowledge("storeInteraction",
                 [namespace |-> CompanyNamespace(companyId, interactionNamespace),
                  type |-> "customer-interaction", tenant |-> companyId,
                  customerId |-> customerId], ok)

\* A retrieval made for a company (and a customer): the search, then the
\* limit.
Retrieve(fn, companyId, customerId, namespace, outcome) ==
  LET found == searchKnowledge(vectorIndex, namespace, outcome)
  IN  /\ \E top \in TopMatches(found.results, TopK) :
            libCall' = [fn |-> fn, tenant |-> companyId, customer |-> customerId,
                        outcome |-> outcome, thrown |-> found.thrown,
                        results |-> top]
      /\ UNCHANGED <<storeVars, approvalVars, turn, turnCount, resolverCall, vectorIndex, limiter>>

\* SupportAgent.retrieveRelevantKnowledge(message): the same calls in the
\* same try / catch, on the agent's vectorNamespace.
RetrieveKnowledgeCall(companyId, configured, outcome) ==
  Retrieve("retrieveRelevantKnowledge", companyId, "none",
           vectorNamespace(companyId, configured), outcome)

\* faqManager.getRelevantFAQs(query, companyId, 3)
GetRelevantFAQs(companyId, outcome) ==
  Retrieve("getRelevantFAQs", companyId, "none",
           CompanyNamespace(companyId, faqNamespace), outcome)

\* ticketResolver.findSimilarResolutions(ticket, companyId)
FindSimilarResolutions(companyId, outcome) ==
  Retrieve("findSimilarResolutions", companyId, "none",
           CompanyNamespace(companyId, ticketNamespace), outcome)

\* vectorManager.recallCustomerInteractions(customerId, query, companyId):
\* the { filter: { customerId } } it passes is an option searchKnowledge
\* does not use.
RecallCustomerInteractions(companyId, customerId, outcome) ==
  Retrieve("recallCustomerInteractions", companyId, customerId,
           CompanyNamespace(companyId, interactionNamespace), outcome)

\* ticketResolver.resolveTicket(ticket, analysis, approved, companyId) for a
\* ticket of a customer: the tools run, the resolution is generated and
\* stored in the vector index, and the result is returned; a failure of the
\* generation or of the store is thrown to the caller.
ResolveTicketCall(companyId, customerId, analysisReply, approved, registry, resolveReply, storeOk) ==
  LET analysis == analyzeTicket(analysisReply)
  IN  /\ ~analysis.thrown
      /\ Cardinality(vectorIndex) < MaxVectors
      /\ \E outcome \in Outcomes(determineTools(analysis), registry) :
           LET result == resolveTicket(analysis, approved, registry, outcome,
                                       resolveReply, storeOk)
           IN  /\ vectorIndex' =
                     IF result.memWrites > 0
                       THEN vectorIndex \cup {TicketResolutionItem(companyId, customerId)}
                       ELSE vectorIndex
               /\ libCall' = [fn |-> "resolveTicket", tenant |-> companyId,
                              customer |-> customerId,
                              outcome |-> IF storeOk THEN "ok" ELSE "insertThrows",
                              thrown |-> result.thrown, results |-> {},
                              status |-> result.status]
      /\ UNCHANGED <<storeVars, approvalVars, turn, turnCount, resolverCall, limiter>>

(***************************************************************************)
(* SupportAgent.generateEnhancedSystemPrompt                               *)
(***************************************************************************)
\* relevantKnowledge.substring(0, 500)
KnowledgeLimit == 500

\* JSON.stringify(result).substring(0, 200)
ToolResultLimit == 200

\* The most previous interactions and tool results of a call.
MaxInteractions == 2

MaxToolResults == 2

\* String.prototype.substring(0, n)
Substring(text, n) == SubSeq(text, 1, Min(n, Len(text)))

\* text.trim().length = 0
IsBlank(text) == \A i \in 1..Len(text) : text[i] \in {" ", "\n", "\t"}

\* The knowledge texts of the calls: none, white space only, a short text,
\* and texts of 500 and of 501 characters.
KnowledgeText ==
  [ empty |-> <<>>,
    blank |-> <<" ", "\n">>,
    short |-> <<"k", "b">>,
    atLimit |-> [i \in 1..KnowledgeLimit |-> "k"],
    overLimit |-> [i \in 1..KnowledgeLimit + 1 |-> "k"] ]

\* JSON.stringify of the tool results of the calls: a small object, an
\* object of 201 characters, the { error } object that executeTools stores
\* for a tool that threw, and null.
ToolResultJson ==
  [ small |-> <<"{", "}">>,
    big |-> [i \in 1..ToolResultLimit + 1 |-> "x"],
    error |-> <<"{", "e", "r", "r", "o", "r", "}">>,
    null |-> <<"n", "u", "l", "l">> ]

ToolResultKinds == DOMAIN ToolResultJson

\* toolResults: an object with up to MaxToolResults entries, in key order.
ToolResultInputs ==
  UNION {[1..n -> ToolResultKinds] : n \in 0..MaxToolResults}

Ellipsis == <<".", ".", ".">>

\* The text that the function returns, as its blocks in order of appearance:
\* the preamble, then the sections that were appended. text is the variable
\* part of a section and lines are the lines of the tool section.
Block(kind, text, lines) == [kind |-> kind, text |-> text, lines |-> lines]

ToolLines(toolResults) ==
  LET shown == SelectSeq([i \in 1..Len(toolResults) |-> [key |-> i, result |-> toolResults[i]]],
                         LAMBDA entry : entry.result \notin {"null", "error"})
  IN  [i \in 1..Len(shown) |->
         [key |-> shown[i].key, result |-> shown[i].result,
          text |-> Substring(ToolResultJson[shown[i].result], ToolResultLimit)]]

generateEnhancedSystemPrompt(relevantKnowledge, toolResults, previousInteractions, faqResponse, ticketResolution) ==
  <<Block("persona", <<>>, <<>>)>>
  \o (IF ticketResolution # "null"
        THEN <<Block("ticket", <<>>, <<>>)>> ELSE <<>>)
  \o (IF faqResponse = "relevant"
        THEN <<Block("faq", <<>>, <<>>)>> ELSE <<>>)
  \o (IF ~IsBlank(KnowledgeText[relevantKnowledge])
        THEN <<Block("knowledge",
                     Substring(KnowledgeText[relevantKnowledge], KnowledgeLimit)
                       \o Ellipsis, <<>>)>>
        ELSE <<>>)
  \o (IF Len(toolResults) > 0
        THEN <<Block("tools", <<>>, ToolLines(toolResults))>> ELSE <<>>)

\* Direct calls of generateEnhancedSystemPrompt, one per behaviour.
\* previousInteractions is the number of interactions passed; faqResponse
\* is null, a response without relevant FAQs, or one with them;
\* ticketResolution is null, a resolution with a message or one without.
PromptCalls ==
  [fn : {"generateEnhancedSystemPrompt"}, relevantKnowledge : DOMAIN KnowledgeText,
   toolResults : ToolResultInputs, previousInteractions : 0..MaxInteractions,
   faqResponse : {"null", "none", "relevant"},
   ticketResolution : {"null", "resolved", "noMessage"},
   returned : {FALSE}, prompt : {<<>>}]

GeneratePromptCall ==
  /\ libCall.fn = "generateEnhancedSystemPrompt"
  /\ ~libCall.returned
  /\ libCall' = [libCall EXCEPT
                   !.returned = TRUE,
                   !.prompt = generateEnhancedSystemPrompt(
                                libCall.relevantKnowledge, libCall.toolResults,
                                libCall.previousInteractions, libCall.faqResponse,
                                libCall.ticketResolution)]
  /\ UNCHANGED <<storeVars, approvalVars, turn, turnCount, resolverCall, vectorIndex, limiter>>

(***************************************************************************)
(* rateLimit(maxRequests, windowMs)                                        *)
(***************************************************************************)
\* The authenticated users and the client addresses of the requests.
RateUsers == {"undefined", "user1"}

RateAddresses == {"undefined", "ip1"}

\* user?.userId || c.req.header('CF-Connecting-IP') || 'anonymous'
RateKey(user, address) ==
  IF user # "undefined" THEN user
  ELSE IF address # "undefined" THEN address
  ELSE "anonymous"

RateKeys == {RateKey(user, address) : user \in RateUsers, address \in RateAddresses}

\* requests = new Map(). admitted[key] is every instant at which a request
\* of the key was let through; the middleware does not keep it.
LimiterStart ==
  limiter = [requests |-> [key \in RateKeys |-> <<>>],
             admitted |-> [key \in RateKeys |-> <<>>]]

\* userRequests.filter(timestamp => now - timestamp < windowMs)
ValidRequests(userRequests, time) ==
  SelectSeq(userRequests, LAMBDA timestamp : time - timestamp < WindowMs)

\* validRequests.length >= maxRequests
OverLimitLoose(validRequests) == Len(validRequests) > MaxRequests

OverLimit(validRequests) == Len(validRequests) >= MaxRequests

\* The middleware handles a request: 429 when the key is over its limit,
\* else the instant is recorded and next() runs.
RateLimitCall(user, address) ==
  LET key == RateKey(user, address)
      validRequests == ValidRequests(limiter.requests[key], now)
  IN  /\ IF OverLimit(validRequests)
           THEN /\ limiter' = limiter
                /\ libCall' = [fn |-> "rateLimit", key |-> key, status |-> 429,
                               at |-> now, before |-> limiter]
           ELSE /\ limiter' = [requests |-> [limiter.requests EXCEPT
                                               ![key] = Append(validRequests, now)],
                               admitted |-> [limiter.admitted EXCEPT
                                               ![key] = Append(@, now)]]
                /\ libCall' = [fn |-> "rateLimit", key |-> key, status |-> 200,
                               at |-> now, before |-> limiter]
      /\ UNCHANGED <<storage, log, req, arrivals, nextId, now, approvalVars, turn,
                     turnCount, resolverCall, vectorIndex>>

\* Date.now() advances.
Tick ==
  /\ now < MaxTime
  /\ now' = now + 1
  /\ UNCHANGED <<storage, log, req, arrivals, nextId, approvalVars, turnVars, limiter>>

(***************************************************************************)
(* The specifications. All start from the state after construction.        *)
(***************************************************************************)
MemoryStart == vectorIndex = {}

Init ==
  /\ StoreStart /\ ApprovalStart /\ TurnStart /\ MemoryStart /\ LimiterStart
  /\ libCall = NoLibCall

StoreNext ==
  \/ \E r \in Reqs, s \in Sessions : FetchStore(r, s)
  \/ \E r \in Reqs : ReadBody(r)
  \/ \E r \in Reqs : GetResolved(r)
  \/ \E r \in Reqs : PutHistoryResolved(r)
  \/ \E r \in Reqs : PutActivityResolved(r)
  \/ \E r \in Reqs, s \in Sessions, limit \in HistoryLimits : FetchHistory(r, s, limit)
  \/ \E r \in Reqs : HistoryResolved(r)
  \/ \E r \in Reqs : Release(r)

SpecStore == Init /\ [][StoreNext]_vars

(***************************************************************************)
(* The approval specification.                                             *)
(***************************************************************************)
ApprovalNext ==
  \/ \E u \in {"cust1"}, s \in ApprovalSessions : CreateApprovalRequest(u, s)
  \/ \E id \in RequestIds, a \in Agents, f \in Feedbacks, ok \in BOOLEAN :
        Approve(id, a, f, ok)
  \/ \E id \in RequestIds, a \in Agents, f \in Feedbacks, ok \in BOOLEAN :
        Reject(id, a, f, ok)
  \/ \E id \in RequestIds, f \in Feedbacks, to \in Agents \cup {"null"}, ok \in BOOLEAN :
        Escalate(id, f, to, ok)

SpecApproval == Init /\ [][ApprovalNext]_vars

(***************************************************************************)
(* The turn specification: chat requests with every input and every        *)
(* failure of the services, one request at a time.                         *)
(***************************************************************************)
\* With one request at a time, which call slot and which company it is for
\* make no difference.
FirstTurn == CHOOSE t \in Turns : TRUE

TurnCompany == CHOOSE company \in Companies : TRUE

TurnNext ==
  \/ \E message \in Messages, s \in Sessions, registry \in Registries,
        bound \in BOOLEAN :
        /\ turnCount < MaxTurns
        /\ \A u \in Turns : turn[u].pc = "idle"
        /\ Receive(FirstTurn, TurnCompany, message, s, registry, bound)
  \/ \E t \in Turns, ok \in BOOLEAN : StoreUserMessage(t, ok)
  \/ \E t \in Turns, ok \in BOOLEAN : LoadHistory(t, ok)
  \/ \E t \in Turns, outcome \in KnowledgeOutcomes : RetrieveKnowledge(t, outcome)
  \/ \E t \in Turns, analysisReply \in AnalysisReplies, resolveReply \in ResolveReplies,
        storeOk \in BOOLEAN : ProcessTicket(t, analysisReply, resolveReply, storeOk)
  \/ \E t \in Turns, faq \in FaqOutcomes : ProcessFaq(t, faq)
  \/ \E t \in Turns : ProcessTools(t)
  \/ \E t \in Turns, reply \in MainReplies : Generate(t, reply)
  \/ \E t \in Turns, ok \in BOOLEAN : StoreResponse(t, ok)
  \/ \E t \in Turns, ok \in BOOLEAN : StoreInteraction(t, ok)
  \/ \E t \in Turns : Finish(t)

SpecTurn == Init /\ [][TurnNext]_vars

(***************************************************************************)
(* The resolver specification: TicketResolver.resolveTicket called with    *)
(* every analysis and either value of approved.                            *)
(***************************************************************************)
ResolveNext ==
  \E analysisReply \in AnalysisReplies, approved \in BOOLEAN, registry \in Registries,
     resolveReply \in ResolveReplies, storeOk \in BOOLEAN :
     ResolveCall(analysisReply, approved, registry, resolveReply, storeOk)

SpecResolve == Init /\ [][ResolveNext]_vars

(***************************************************************************)
(* The escalation specification: shouldEscalate called with every query    *)
(* and context of the model.                                               *)
(***************************************************************************)
EscalateInit ==
  /\ StoreStart /\ ApprovalStart /\ TurnStart /\ MemoryStart /\ LimiterStart
  /\ libCall \in EscalationCalls

EscalateNext == ShouldEscalateCall

SpecEscalate == EscalateInit /\ [][EscalateNext]_vars

(***************************************************************************)
(* The memory specification: vectors stored and retrieved for every        *)
(* company, customer and configuration of the model.                       *)
(***************************************************************************)
MemoryNext ==
  \/ \E companyId \in Tenants, ok \in BOOLEAN : TrainWithFAQs(companyId, ok)
  \/ \E companyId \in Tenants, customerId \in Customers, ok \in BOOLEAN :
        StoreTicketResolution(companyId, customerId, ok)
  \/ \E companyId \in Tenants, customerId \in Customers, ok \in BOOLEAN :
        StoreCustomerInteraction(companyId, customerId, ok)
  \/ \E companyId \in Tenants, configured \in Configurations, outcome \in SearchOutcomes :
        RetrieveKnowledgeCall(companyId, configured, outcome)
  \/ \E companyId \in Tenants, outcome \in SearchOutcomes :
        GetRelevantFAQs(companyId, outcome)
  \/ \E companyId \in Tenants, outcome \in SearchOutcomes :
        FindSimilarResolutions(companyId, outcome)
  \/ \E companyId \in Tenants, customerId \in Customers, outcome \in SearchOutcomes :
        RecallCustomerInteractions(companyId, customerId, outcome)

SpecMemory == Init /\ [][MemoryNext]_vars

\* A session object that already holds n stored messages (ids 1..n, in order).
StoredHistory(n) ==
  [i \in 1..n |-> [role |-> "user", content |-> "text", id |-> i]]

HistoryInit ==
  /\ \E n \in 0..MaxStored :
       /\ storage = [s \in Sessions |-> [NoStorage EXCEPT !.history = StoredHistory(n),
                                                          !.lastActivity = n]]
       /\ log = [s \in Sessions |-> StoredHistory(n)]
       /\ arrivals = n
       /\ nextId = n + 1
       /\ now = n + 1
  /\ req = [r \in Reqs |-> NoReq]
  /\ ApprovalStart /\ TurnStart /\ MemoryStart /\ LimiterStart
  /\ libCall = NoLibCall

\* GET .../history?limit=<limit> requests against the stored history.
HistoryNext ==
  \/ \E r \in Reqs, s \in Sessions, limit \in 0..MaxLimit : FetchHistory(r, s, limit)
  \/ \E r \in Reqs : HistoryResolved(r)
  \/ \E r \in Reqs : Release(r)

SpecHistory == HistoryInit /\ [][HistoryNext]_vars


\* Direct calls analyzeTicket(ticket, companyId), one per behaviour: the
\* generation output of the call is drawn at the start.
AnalyzeCalls ==
  [fn : {"analyzeTicket"}, reply : AnalysisOutputs, returned : {FALSE},
   result : {analyzeTicket(NoAnalysis)}]

AnalyzeTicketCall ==
  /\ libCall.fn = "analyzeTicket"
  /\ ~libCall.returned
  /\ libCall' = [libCall EXCEPT !.returned = TRUE,
                                !.result = analyzeTicket(libCall.reply)]
  /\ UNCHANGED <<storeVars, approvalVars, turn, turnCount, resolverCall, vectorIndex, limiter>>

AnalyzeInit ==
  /\ StoreStart /\ ApprovalStart /\ TurnStart /\ MemoryStart /\ LimiterStart
  /\ libCall \in AnalyzeCalls

AnalyzeNext == AnalyzeTicketCall

SpecAnalyze == AnalyzeInit /\ [][AnalyzeNext]_vars


(***************************************************************************)
(* The similar-resolution specification: a chat request of a company whose *)
(* ticket namespace already holds a resolution. similarity is the score,   *)
(* in hundredths, that the index gives the stored resolution for the       *)
(* request's message.                                                      *)
(***************************************************************************)
\* similarResolutions[0].similarity > 0.85
HighConfidence == 85

Similarities == {50, 85, 86, 99}

PastResolutions ==
  [namespace : {CompanyNamespace("c1", ticketNamespace)}, type : {"ticket-resolution"},
   tenant : {"c1"}, customerId : Customers, similarity : Similarities]

SimilarInit ==
  /\ StoreStart /\ ApprovalStart /\ TurnStart /\ LimiterStart
  /\ libCall = NoLibCall
  /\ \E past \in PastResolutions : vectorIndex = {past}

SimilarMessages == {"hello", "accountError", "long"}

SimilarNext ==
  \/ \E message \in SimilarMessages, s \in Sessions, registry \in Registries :
        /\ turnCount < MaxTurns
        /\ \A u \in Turns : turn[u].pc = "idle"
        /\ Receive(FirstTurn, "c1", message, s, registry, TRUE)
  \/ \E t \in Turns : StoreUserMessage(t, TRUE)
  \/ \E t \in Turns : LoadHistory(t, TRUE)
  \/ \E t \in Turns : RetrieveKnowledge(t, "found")
  \/ \E t \in Turns, analysisReply \in AnalysisReplies, resolveReply \in ResolveReplies :
        ProcessTicket(t, analysisReply, resolveReply, TRUE)
  \/ \E t \in Turns, faq \in FaqOutcomes : ProcessFaq(t, faq)
  \/ \E t \in Turns : ProcessTools(t)
  \/ \E t \in Turns : Generate(t, "string")
  \/ \E t \in Turns : StoreResponse(t, TRUE)
  \/ \E t \in Turns : StoreInteraction(t, TRUE)
  \/ \E t \in Turns : Finish(t)

SpecSimilar == SimilarInit /\ [][SimilarNext]_vars

(***************************************************************************)
(* The ticket-memory specification: tickets of every company are resolved  *)
(* and similar resolutions are searched.                                   *)
(***************************************************************************)
\* The analyses and registries of the resolved tickets: account tickets of
\* companies that have the tool of that category.
AccountAnalyses == {reply \in AnalysisReplies : reply.category = "Account"}

AccountRegistries == {registry \in Registries : "accountLookup" \in registry}

TicketMemoryNext ==
  \/ \E companyId \in Tenants, customerId \in Customers,
        analysisReply \in AccountAnalyses, approved \in BOOLEAN,
        registry \in AccountRegistries, resolveReply \in ResolveReplies,
        storeOk \in BOOLEAN :
        ResolveTicketCall(companyId, customerId, analysisReply, approved, registry,
                          resolveReply, storeOk)
  \/ \E companyId \in Tenants, ok \in BOOLEAN : TrainWithFAQs(companyId, ok)
  \/ \E companyId \in Tenants, outcome \in SearchOutcomes :
        FindSimilarResolutions(companyId, outcome)

SpecTicketMemory == Init /\ [][TicketMemoryNext]_vars

(***************************************************************************)
(* The prompt specification: generateEnhancedSystemPrompt called with      *)
(* every combination of context inputs.                                    *)
(***************************************************************************)
PromptInit ==
  /\ StoreStart /\ ApprovalStart /\ TurnStart /\ MemoryStart /\ LimiterStart
  /\ libCall \in PromptCalls

PromptNext == GeneratePromptCall

SpecPrompt == PromptInit /\ [][PromptNext]_vars

(***************************************************************************)
(* The session specification: appends, metadata reads and metadata updates *)
(* on two session objects, interleaved in every way.                       *)
(***************************************************************************)
SessionNames == {"s1", "s2"}

SessionInit ==
  /\ storage = [s \in SessionNames |-> NoStorage]
  /\ log = [s \in SessionNames |-> <<>>]
  /\ req = [r \in Reqs |-> NoReq]
  /\ arrivals = 0
  /\ nextId = 1
  /\ now = 1
  /\ ApprovalStart /\ TurnStart /\ MemoryStart /\ LimiterStart
  /\ libCall = NoLibCall

SessionNext ==
  \/ \E r \in Reqs, s \in SessionNames :
        arrivals < MaxSessionOps /\ FetchStore(r, s)
  \/ \E r \in Reqs : ReadBody(r)
  \/ \E r \in Reqs : GetResolved(r)
  \/ \E r \in Reqs : PutHistoryResolved(r)
  \/ \E r \in Reqs : PutActivityResolved(r)
  \/ \E r \in Reqs, s \in SessionNames :
        arrivals < MaxSessionOps /\ FetchMetadata(r, s)
  \/ \E r \in Reqs : MetadataGetResolved(r)
  \/ \E r \in Reqs : ActivityGetResolved(r)
  \/ \E r \in Reqs, s \in SessionNames, updates \in MetadataUpdates :
        arrivals < MaxSessionOps /\ FetchUpdateMetadata(r, s, updates)
  \/ \E r \in Reqs : ReadUpdates(r)
  \/ \E r \in Reqs : UpdateGetResolved(r)
  \/ \E r \in Reqs : UpdatePutResolved(r)
  \/ \E r \in Reqs : Release(r)

SpecSession == SessionInit /\ [][SessionNext]_vars

(***************************************************************************)
(* The escalation record specification: escalations, status updates and   *)
(* resolutions of two sessions on one EscalationManager.                   *)
(***************************************************************************)
EscalationQueryIds == {"q1", "q2"}

EscalationRecordNext ==
  \/ \E sessionId \in EscalationSessions, config \in EscalationConfigs,
        query \in EscalationQueryIds : EscalateToHuman(sessionId, config, query)
  \/ \E sessionId \in EscalationSessions, updates \in EscalationUpdates :
        UpdateEscalationStatus(sessionId, updates)
  \/ \E sessionId \in EscalationSessions : ResolveEscalation(sessionId)

SpecEscalationRecords == Init /\ [][EscalationRecordNext]_vars

(***************************************************************************)
(* The rate limit specification: requests of every key pass one middleware *)
(* while the clock advances.                                               *)
(***************************************************************************)
RateLimitNext ==
  \/ \E user \in RateUsers, address \in RateAddresses : RateLimitCall(user, address)
  \/ Tick

SpecRateLimit == Init /\ [][RateLimitNext]_vars

(***************************************************************************)
(* The concurrent specification: chat requests of any company for one      *)
(* session id arrive while others are in progress. The session object is   *)
(* bound and no service fails.                                             *)
(***************************************************************************)
ConcurrentMessages == {"hello", "accountError"}

ConcurrentNext ==
  \/ \E t \in Turns, company \in Companies, message \in ConcurrentMessages,
        s \in Sessions :
        /\ turnCount < MaxConcurrentTurns
        /\ Receive(t, company, message, s, {}, TRUE)
  \/ \E t \in Turns : StoreUserMessage(t, TRUE)
  \/ \E t \in Turns : LoadHistory(t, TRUE)
  \/ \E t \in Turns : RetrieveKnowledge(t, "found")
  \/ \E t \in Turns : ProcessTicket(t, NoAnalysis, "content", TRUE)
  \/ \E t \in Turns : ProcessFaq(t, "none")
  \/ \E t \in Turns : ProcessTools(t)
  \/ \E t \in Turns : Generate(t, "string")
  \/ \E t \in Turns : StoreResponse(t, TRUE)
  \/ \E t \in Turns : StoreInteraction(t, TRUE)
  \/ \E t \in Turns : Finish(t)

SpecConcurrent == Init /\ [][ConcurrentNext]_vars

(***************************************************************************)
(* Claims about the session store (SpecStore).                             *)
(***************************************************************************)
\* C1: the stored history of every session is exactly the last
\* min(n, 100) of the n messages appended so far, in the order they were
\* appended (never longer than 100, only the oldest dropped, nothing
\* reordered), and a history request whose limit is at least 100 is answered
\* with exactly those messages.
C1_HistoryCap ==
  /\ \A s \in Sessions :
        /\ storage[s].history = LastN(log[s], MaxHistory)
        /\ Len(storage[s].history) <= MaxHistory
  /\ \A r \in Reqs :
        (req[r].pc = "done" /\ req[r].kind = "history" /\ req[r].limit >= MaxHistory)
          => req[r].resp = LastN(SubSeq(log[req[r].session], 1, req[r].readAt),
                                 MaxHistory)

\* C1 witness: more than 100 messages were appended and a history request
\* with a limit above 100 has been answered after that.
C1_Witness ==
  \E r \in Reqs :
    /\ req[r].pc = "done" /\ req[r].kind = "history"
    /\ req[r].limit > MaxHistory
    /\ req[r].readAt > MaxHistory
    /\ Len(req[r].resp) = MaxHistory

\* The message of store request r (it has its id once storage.get resolved).
Applied(r) == req[r].kind = "store" /\ req[r].pc \in {"putActivity", "done"}

\* C2: two append requests of one session never interleave their storage
\* steps, and no applied append is lost: the message of every answered append
\* is in the stored history unless 100 later appends evicted it, so two
\* concurrent appends both end up in the history, one after the other.
C2_AppendsSerialized ==
  /\ \A r1, r2 \in Reqs :
        (r1 # r2 /\ req[r1].session = req[r2].session)
          => ~(InStorage(r1) /\ InStorage(r2))
  /\ \A r \in Reqs :
        (Applied(r)
           /\ Positions(LastN(log[req[r].session], MaxHistory), req[r].messageId) # {})
          => Cardinality(Positions(storage[req[r].session].history,
                                   req[r].messageId)) = 1

\* C2 witness: two appends of one session were in flight at the same time and
\* both have been answered, with both messages in the stored history.
C2_Witness ==
  \E r1, r2 \in Reqs :
    /\ r1 # r2
    /\ req[r1].session = req[r2].session
    /\ req[r1].pc = "done" /\ req[r2].pc = "done"
    /\ req[r1].kind = "store" /\ req[r2].kind = "store"
    /\ req[r2].overlapped
    /\ Positions(storage[req[r1].session].history, req[r1].messageId) # {}
    /\ Positions(storage[req[r1].session].history, req[r2].messageId) # {}

(***************************************************************************)
(* Claims about approval requests (SpecApproval).                          *)
(***************************************************************************)
Decisions == {"approved", "rejected", "escalated"}

\* C5: the status of an approval request changes only from pending to
\* approved, rejected or escalated, and once a request is no longer pending
\* no later decision changes its status, approver or notes.
C5_TerminalImmutable ==
  [][\A i \in DOMAIN approvalRows :
       LET old == approvalRows[i]
           new == approvalRows'[i]
       IN  /\ old.status # new.status
                => (old.status = "pending" /\ new.status \in Decisions)
           /\ old.status # "pending"
                => /\ new.status = old.status
                   /\ new.agent_id = old.agent_id
                   /\ new.agent_feedback = old.agent_feedback]_vars

C7_UnknownIdRejected ==
  lastCall.op \in Decisions =>
    /\ ~lastCall.existed => (~lastCall.success /\ approvalRows = lastCall.before)
    /\ (lastCall.existed /\ lastCall.http = 200)
         => /\ approvalRows[lastCall.requestId].status = lastCall.op
            /\ approvalRows[lastCall.requestId].updated_at = lastCall.at


(***************************************************************************)
(* Claims about processMessage and resolveTicket.                          *)
(***************************************************************************)
\* C3: two concurrent processMessage requests for one session are processed
\* one at a time, so the stored history never has another request's user
\* turn between a request's user turn and that request's assistant turn.
C3_TurnsSerialized ==
  \A s \in Sessions :
    LET history == storage[s].history
    IN  \A i, j, k \in 1..Len(history) :
          ( /\ i < j /\ j < k
            /\ history[i].role = "user" /\ history[k].role = "assistant"
            /\ history[i].turn = history[k].turn
            /\ history[j].role = "user" )
          => history[j].turn = history[i].turn

\* C4: resolveTicket with an analysis that requires approval and approved =
\* false returns pending_approval, executes no tool, does not call the
\* generation service and writes nothing to the vector store.
C4_ApprovalGate ==
  ( /\ resolverCall.called
    /\ resolverCall.analysis.requiresApproval
    /\ ~resolverCall.approved )
  => /\ ~resolverCall.result.thrown
     /\ resolverCall.result.status = "pending_approval"
     /\ resolverCall.result.invoked = <<>>
     /\ resolverCall.result.actions = <<>>
     /\ resolverCall.result.aiCalls = 0
     /\ resolverCall.result.memWrites = 0

\* The gate has been asked about a ticket whose tool is registered.
C4_Witness ==
  /\ resolverCall.called
  /\ resolverCall.analysis.requiresApproval
  /\ ~resolverCall.approved
  /\ Range(determineTools(resolverCall.analysis)) \cap resolverCall.registry # {}
  /\ resolverCall.result.status = "pending_approval"

\* C8: whatever the message and whichever of the session store, knowledge
\* retrieval, ticket analysis, FAQ reasoning, tool execution, generation and
\* interaction memory fail, processMessage returns a response whose message
\* is not empty and whose sessionId is the request's session id.
C8_AlwaysReplies ==
  \A t \in Turns :
    /\ turn[t].pc \in {"idle", "received", "userStored", "historyLoaded", "knowledge",
                       "ticket", "faq", "tools", "generated", "persisted",
                       "responded"}
    /\ turn[t].pc = "responded"
         => /\ ~Falsy(turn[t].response.message)
            /\ turn[t].response.sessionId = turn[t].session

\* A turn has been answered although the session store, the knowledge
\* retrieval, a tool, the generation service and the interaction memory all
\* failed.
C8_Witness ==
  \E t \in Turns :
    /\ turn[t].pc = "responded"
    /\ turn[t].bound
    /\ turn[t].stored = {}
    /\ turn[t].knowledgeOutcome # "found"
    /\ turn[t].relevantKnowledge = ""
    /\ turn[t].generationFailed
    /\ \E i \in 1..Len(turn[t].toolResults) : IsError(turn[t].toolResults[i].value)
    /\ ~Falsy(turn[t].response.message)

\* The tool results a loop over `tools` must have: one entry, in order, for
\* every registered tool, an error for a tool that failed and the result for
\* one that did not.
Isolated(tools, registry, outcome, results) ==
  LET registered == SelectSeq(tools, LAMBDA name : name \in registry)
  IN  /\ Keys(results) = registered
      /\ \A i \in 1..Len(results) :
            IsError(results[i].value) <=> outcome[results[i].name] # "result"

\* C9: when some of the tools executed in a turn fail, the tool results
\* still have an entry for every registered tool of the set, an error for
\* each failing tool and the result for each other one, and the tools after
\* a failing one are still executed.
C9_ToolIsolation ==
  \A t \in Turns :
    /\ turn[t].pc \in {"tools", "generated", "persisted", "responded"}
         /\ IsString(turn[t].message)
         => LET detected == detectToolInvocation(MessageText[turn[t].message],
                                                 turn[t].registry)
            IN  /\ Isolated(detected, turn[t].registry, turn[t].toolOutcome,
                             turn[t].toolResults)
                /\ Range(detected) \subseteq turn[t].attempted
    /\ Isolated(Keys(turn[t].ticketActions), turn[t].registry, turn[t].ticketOutcome,
                turn[t].ticketActions)
    /\ Range(Keys(turn[t].ticketActions)) \subseteq turn[t].attempted

\* The first of two tools failed and the second gave its result.
C9_Witness ==
  \E t \in Turns :
    /\ turn[t].pc = "responded"
    /\ Len(turn[t].toolResults) = 2
    /\ IsError(turn[t].toolResults[1].value)
    /\ turn[t].toolResults[2].value = "result"

\* C10: when the generation service fails, the response has a message that
\* is not empty and toolsUsed names exactly the tools executed during the
\* turn, by tool detection and by ticket resolution.
C10_ToolsUsedComplete ==
  \A t \in Turns :
    (turn[t].pc = "responded" /\ turn[t].generationFailed)
    => /\ ~Falsy(turn[t].response.message)
       /\ Range(turn[t].response.toolsUsed) = turn[t].attempted


\* C11: for the message "I need a refund for order 123" in a new session the
\* turn finds that approval is required, creates an approval request with
\* status pending, and answers with a ticket whose status is
\* pending_approval and which carries the request's approvalId.
C11_RefundNeedsApproval ==
  \A t \in Turns :
    ( /\ turn[t].pc = "responded"
      /\ turn[t].message = "refund"
      /\ turn[t].turnNo = 1 )
    => /\ turn[t].analysis = "approval"
       /\ PendingOf(approvalRows, turn[t].session) # {}
       /\ turn[t].response.ticket = "pending_approval"
       /\ turn[t].response.approvalId # "undefined"

\* C12: for every ticket-shaped message the orchestrator analyses the ticket
\* and then resolves it (no approval required) or creates an approval
\* request and answers pending_approval (approval required); either way the
\* response carries a ticket.
C12_TicketAlwaysAnswered ==
  \A t \in Turns :
    ( /\ turn[t].pc = "responded"
      /\ IsString(turn[t].message)
      /\ isTicketRequest(MessageText[turn[t].message]) )
    => /\ turn[t].analysis \in {"approval", "auto"}
       /\ turn[t].analysis = "auto" => turn[t].response.ticket = "resolved"
       /\ turn[t].analysis = "approval"
            => /\ turn[t].response.ticket = "pending_approval"
               /\ PendingOf(approvalRows, turn[t].session) # {}

\* C15: two chat requests of different companies that carry the same
\* sessionId never read or append to the same conversation history: the
\* history a request loads holds no message of another company.
C15_SessionsPerCompany ==
  \A t \in Turns :
    \A i \in 1..Len(turn[t].history) :
      turn[t].history[i].company = turn[t].company


(***************************************************************************)
(* Claims about escalation.                                                *)
(***************************************************************************)
\* C16: shouldEscalate is a function of its arguments, and with an empty
\* context it returns true for "I want to speak to a human", false for
\* "thanks" and true for a message of exactly 201 characters that has no
\* trigger keyword and fewer than three question marks.
C16_EscalationExamples ==
  ( /\ libCall.fn = "shouldEscalate"
    /\ libCall.returned
    /\ ~libCall.context.hasHistory )
  => /\ libCall.query = "human" => libCall.result
     /\ libCall.query = "thanks" => ~libCall.result
     /\ libCall.query = "overLength" => libCall.result

\* requiresApproval(message, tenantRules): the message names a high-risk
\* action.
highRiskKeywords ==
  <<
    <<"r", "e", "f", "u", "n", "d">>,
    <<"d", "e", "l", "e", "t", "e">>
  >>

requiresApproval(text) == IncludesSome(ToLowerCase(text), highRiskKeywords)

\* The number of recent user turns that contain frustration vocabulary.
FrustratedRecentTurns(context) ==
  LET recent == JsSlice(sessionHistory(context), 0 - RecentMessages)
  IN  Cardinality({i \in 1..Len(recent) :
                     /\ recent[i].role = "user"
                     /\ IncludesSome(ToLowerCase(recent[i].content), frustrationKeywords)})

\* C17: shouldEscalate returns true exactly when a trigger holds: a
\* human-request keyword, more than 200 characters, three or more question
\* marks, three or more recent user turns with frustration vocabulary, or
\* requiresApproval true for the message.
C17_EscalationTriggers ==
  ( libCall.fn = "shouldEscalate" /\ libCall.returned )
  => ( libCall.result
       <=> \/ IncludesSome(ToLowerCase(EscalationText[libCall.query]), escalationKeywords)
           \/ Len(EscalationText[libCall.query]) > EscalationLength
           \/ QuestionMarks(EscalationText[libCall.query]) >= QuestionMarkLimit
           \/ /\ libCall.context.hasHistory
              /\ FrustratedRecentTurns(libCall.context) >= FrustratedTurns
           \/ requiresApproval(EscalationText[libCall.query]) )


(***************************************************************************)
(* Claims about the vector memory (SpecMemory).                            *)
(***************************************************************************)
Retrievals == {"retrieveRelevantKnowledge", "getRelevantFAQs",
               "findSimilarResolutions", "recallCustomerInteractions"}

\* C13: recallCustomerInteractions(customerId, ...) returns only
\* interactions stored with that customer id, never those of another
\* customer of the same company.
C13_RecallOwnInteractions ==
  libCall.fn = "recallCustomerInteractions"
  => \A item \in libCall.results : item.customerId = libCall.customer

\* C14: what was stored for one company is never returned by a retrieval
\* made for another company, whatever the companies' ids and configuration.
C14_TenantIsolation ==
  libCall.fn \in Retrievals
  => \A item \in libCall.results : item.tenant = libCall.tenant

\* C19: a search whose embedding call or index query fails does not raise
\* and returns an empty result.
C19_SearchNeverRaises ==
  (libCall.fn \in Retrievals /\ libCall.outcome # "ok")
  => /\ ~libCall.thrown
     /\ libCall.results = {}

\* A search failed although the index held a vector of its namespace.
C19_Witness ==
  /\ libCall.fn = "getRelevantFAQs"
  /\ libCall.outcome = "queryThrows"
  /\ Matching(vectorIndex, CompanyNamespace(libCall.tenant, faqNamespace)) # {}
  /\ ~libCall.thrown
  /\ libCall.results = {}

\* C18: a history request with limit >= 0 against a stored history of length n
\* is answered with exactly the min(limit, n) most recent messages, oldest
\* first; it is never answered with more than limit messages.
C18_HistoryLimit ==
  \A r \in Reqs :
    (req[r].pc = "done" /\ req[r].kind = "history")
    => LET history == storage[req[r].session].history
       IN  /\ req[r].resp = LastN(history, Min(req[r].limit, Len(history)))
           /\ Len(req[r].resp) <= req[r].limit


\* C20: analyzeTicket does not raise on any output that the generation
\* service returns, and every field that the output does not carry takes its
\* default: category "Uncategorized", requiresApproval true, confidence 50.
C20_AnalyzeDefaults ==
  ( /\ libCall.fn = "analyzeTicket" /\ libCall.returned
    /\ libCall.reply.kind # "throws" )
  => /\ ~libCall.result.thrown
     /\ libCall.reply.category = "none" => libCall.result.category = "Uncategorized"
     /\ libCall.reply.approval = "none" => libCall.result.requiresApproval
     /\ libCall.reply.confidence = "none"
          => libCall.result.confidence = DefaultConfidence

\* The stored resolutions that findSimilarResolutions would rank for the
\* company of turn t with a similarity above 0.85.
HighConfidenceMatches(t) ==
  {past \in Matching(vectorIndex, CompanyNamespace(turn[t].company, ticketNamespace)) :
     past.similarity > HighConfidence}

\* C21: when a ticket-shaped message has a prior similar resolution with a
\* similarity above 0.85, the turn reuses it: the ticket is resolved without
\* a call of analyzeTicket and without executing a ticket-resolution tool.
C21_ReusesSimilarResolution ==
  \A t \in Turns :
    ( /\ turn[t].pc \in {"ticket", "faq", "tools", "generated", "persisted", "responded"}
      /\ IsString(turn[t].message)
      /\ isTicketRequest(MessageText[turn[t].message])
      /\ HighConfidenceMatches(t) # {} )
    => /\ turn[t].analysis = "none"
       /\ turn[t].ticketActions = <<>>
       /\ turn[t].ticketResolution.status = "resolved"

(***************************************************************************)
(* Claims about the order of a turn's steps (SpecTurn).                    *)
(***************************************************************************)
\* C22: in a turn whose ticket analysis requires approval (and none was
\* given), no tool of the company is invoked: not by the ticket resolution
\* and not by the turn's own tool detection and execution.
C22_NoToolBeforeApproval ==
  \A t \in Turns : turn[t].analysis = "approval" => turn[t].attempted = {}

\* The steps of a turn that come before its reply has been produced.
BeforeReply == {"received", "userStored", "historyLoaded", "knowledge", "ticket",
                "faq", "tools"}

\* The messages of the session's log that turn t appended.
AppendedBy(t) ==
  {i \in 1..Len(log[turn[t].session]) : log[turn[t].session][i].turn = turn[t].turnNo}

\* C23: no message of a turn, user or assistant, is appended to the session
\* store before the turn's reply has been produced; a turn that ends without
\* a generated reply has appended nothing.
C23_PersistAfterReply ==
  \A t \in Turns :
    /\ turn[t].pc \in BeforeReply => AppendedBy(t) = {}
    /\ (turn[t].pc = "responded" /\ turn[t].response.error) => AppendedBy(t) = {}

\* C24: storing the assistant turn in the session object and storing the
\* interaction in the vector memory are best effort: the turn's response is
\* the one computed from the reply, the session id, the tool results and the
\* ticket resolution whether either write succeeds or fails, and the second
\* write is attempted also when the first failed.
C24_BestEffortPersistence ==
  \A t \in Turns :
    (turn[t].pc = "responded" /\ IsString(turn[t].message))
    => /\ turn[t].response = ResponseObject(t)
       /\ ~turn[t].response.error
       /\ "interaction" \in turn[t].tried
       /\ turn[t].bound => "assistant" \in turn[t].tried

C24_Witness ==
  \E t \in Turns :
    /\ turn[t].pc = "responded"
    /\ turn[t].bound
    /\ turn[t].tried = {"assistant", "interaction"}
    /\ turn[t].stored \cap {"assistant", "interaction"} = {}
    /\ turn[t].response.message = turn[t].aiResponse
    /\ Len(turn[t].response.toolsUsed) > 0

(***************************************************************************)
(* Claims about ticket resolutions in the vector memory (SpecTicketMemory). *)
(***************************************************************************)
\* The ticket resolutions that the index holds for a company.
StoredResolutions(companyId) ==
  {item \in vectorIndex : item.type = "ticket-resolution" /\ item.tenant = companyId}

\* C25: when resolveTicket returns status resolved, the resolution is already
\* stored in the company's ticket namespace; findSimilarResolutions searches
\* that same namespace, so for the same company it returns the stored
\* resolutions and for another company it returns none of them.
C25_ResolutionStoredForTenant ==
  /\ (libCall.fn = "resolveTicket" /\ libCall.status = "resolved")
       => TicketResolutionItem(libCall.tenant, libCall.customer)
            \in Matching(vectorIndex, CompanyNamespace(libCall.tenant, ticketNamespace))
  /\ libCall.fn = "findSimilarResolutions"
       => /\ \A item \in libCall.results : item.tenant = libCall.tenant
          /\ (libCall.outcome = "ok"
               /\ Cardinality(StoredResolutions(libCall.tenant)) <= TopK)
               => libCall.results = StoredResolutions(libCall.tenant)

C25_Witness ==
  /\ libCall.fn = "findSimilarResolutions"
  /\ libCall.results # {}
  /\ libCall.results = StoredResolutions(libCall.tenant)
  /\ \E item \in vectorIndex :
        item.type = "ticket-resolution" /\ item.tenant # libCall.tenant

(***************************************************************************)
(* Claims about the generation context (SpecPrompt).                       *)
(***************************************************************************)
\* The order of the blocks of the context.
BlockOrder == <<"persona", "ticket", "faq", "interactions", "knowledge", "tools">>

Rank(kind) == CHOOSE i \in 1..Len(BlockOrder) : BlockOrder[i] = kind

HasBlock(prompt, kind) == \E i \in 1..Len(prompt) : prompt[i].kind = kind

\* C26: the context is the persona preamble followed by the ticket status,
\* FAQ, prior interactions, knowledge and tool result blocks in that order;
\* each of these is present exactly when its input is not empty; the
\* knowledge block and each tool result are truncated; a tool result with an
\* error does not appear.
C26_ContextBlocks ==
  (libCall.fn = "generateEnhancedSystemPrompt" /\ libCall.returned)
  => LET prompt == libCall.prompt
     IN  /\ Len(prompt) > 0 /\ prompt[1].kind = "persona"
         /\ \A i, j \in 1..Len(prompt) :
               i < j => Rank(prompt[i].kind) < Rank(prompt[j].kind)
         /\ HasBlock(prompt, "ticket") <=> libCall.ticketResolution # "null"
         /\ HasBlock(prompt, "faq") <=> libCall.faqResponse = "relevant"
         /\ HasBlock(prompt, "interactions") <=> libCall.previousInteractions > 0
         /\ HasBlock(prompt, "knowledge")
               <=> Len(KnowledgeText[libCall.relevantKnowledge]) > 0
         /\ HasBlock(prompt, "tools") <=> Len(libCall.toolResults) > 0
         /\ \A i \in 1..Len(prompt) :
               /\ Len(prompt[i].text) <= KnowledgeLimit + Len(Ellipsis)
               /\ \A k \in 1..Len(prompt[i].lines) :
                     /\ Len(prompt[i].lines[k].text) <= ToolResultLimit
                     /\ prompt[i].lines[k].result # "error"

(***************************************************************************)
(* Claims about session metadata and session independence (SpecSession).   *)
(***************************************************************************)
\* C27: sessions are independent: a step that changes the history, the
\* metadata or the last activity of a session id is a step of a request
\* addressed to that session id; requests to other session ids, however they
\* interleave, leave it unchanged.
C27_SessionsIndependent ==
  [][\A s \in DOMAIN storage :
       storage'[s] # storage[s]
       => \E r \in Reqs : req[r].session = s /\ req'[r] # req[r]]_vars

C27_Witness ==
  \E r1, r2 \in Reqs :
    /\ req[r1].session = "s1" /\ req[r1].kind = "store" /\ req[r1].pc = "putActivity"
    /\ req[r2].session = "s2" /\ req[r2].kind = "update" /\ req[r2].pc = "done"
    /\ Len(storage["s1"].history) = 1 /\ storage["s1"].metadata = NoMeta
    /\ storage["s2"].history = <<>> /\ storage["s2"].metadata.keys # {}

\* C28: an update of the metadata changes only the keys of the request's body
\* and the update stamp: every other key keeps the value of the metadata the
\* handler read (the stored one, or the default when none is stored), and the
\* history and the last activity of the session are not changed; a metadata
\* read returns the stored metadata with the last activity.
C28_UpdateMergesMetadata ==
  \A r \in Reqs :
    /\ (req[r].pc = "done" /\ req[r].kind = "update")
        => LET previous == MetadataOrDefault(req[r].before.metadata, req[r].readAt)
               stored == req[r].after.metadata
           IN  /\ req[r].after.history = req[r].before.history
               /\ req[r].after.lastActivity = req[r].before.lastActivity
               /\ \A k \in MetaKeys \ (req[r].updates.keys \cup {"updated"}) :
                     /\ k \in stored.keys <=> k \in previous.keys
                     /\ stored.at[k] = previous.at[k]
               /\ \A k \in req[r].updates.keys \ {"updated"} :
                     k \in stored.keys /\ stored.at[k] = req[r].updates.at[k]
               /\ "updated" \in stored.keys
    /\ (req[r].pc = "done" /\ req[r].kind = "metadata")
        => LET previous == MetadataOrDefault(req[r].before.metadata, req[r].readAt)
           IN  /\ \A k \in MetaKeys \ {"lastActivity"} :
                     /\ k \in req[r].meta.keys <=> k \in previous.keys
                     /\ req[r].meta.at[k] = previous.at[k]
               /\ "lastActivity" \in req[r].meta.keys
               /\ req[r].meta.at["lastActivity"] = req[r].before.lastActivity

C28_Witness ==
  \E r1, r2 \in Reqs :
    /\ req[r1].pc = "done" /\ req[r1].kind = "update"
    /\ req[r1].updates.keys = {"escalated"}
    /\ req[r1].before.metadata.keys # {}
    /\ req[r1].after.metadata.at["userId"] = "u1"
    /\ req[r2].pc = "done" /\ req[r2].kind = "metadata"
    /\ req[r2].session = req[r1].session
    /\ req[r2].meta.at["userId"] = "u1" /\ req[r2].meta.at["escalated"]

(***************************************************************************)
(* Claims about escalation records (SpecEscalationRecords).                *)
(***************************************************************************)
\* C29: escalateToHuman is idempotent per session: for a session that has an
\* escalation record, resolved or not, it returns the stored record and
\* changes nothing; updateEscalationStatus and resolveEscalation for a
\* session with no record return null and change nothing.
C29_EscalateIdempotent ==
  /\ (lastCall.op = "escalateToHuman" /\ lastCall.before[lastCall.session] # NoRecord)
       => /\ lastCall.result = lastCall.before[lastCall.session]
          /\ escalatedSessions = lastCall.before
  /\ ( /\ lastCall.op \in {"updateEscalationStatus", "resolveEscalation"}
       /\ lastCall.before[lastCall.session] = NoRecord )
       => /\ lastCall.result = NoRecord
          /\ escalatedSessions = lastCall.before

C29_Witness ==
  /\ lastCall.op = "escalateToHuman"
  /\ lastCall.before[lastCall.session].status = "resolved"
  /\ lastCall.result.status = "resolved"
  /\ escalatedSessions = lastCall.before

(***************************************************************************)
(* Claims about the rate limiter (SpecRateLimit).                          *)
(***************************************************************************)
\* The requests of a key admitted at an instant of [from, from + windowMs).
AdmittedIn(admitted, from) ==
  {i \in 1..Len(admitted) : from <= admitted[i] /\ admitted[i] < from + WindowMs}

\* C30: for each key, at most maxRequests admitted requests lie in any
\* window of windowMs; a request answered 429 is not recorded and is only
\* rejected when the key has used its quota; a request of one key changes
\* nothing for another key.
C30_RateLimit ==
  /\ \A key \in RateKeys : \A from \in 0..MaxTime :
        Cardinality(AdmittedIn(limiter.admitted[key], from)) <= MaxRequests
  /\ libCall.fn = "rateLimit"
       => /\ libCall.status = 429
               => /\ limiter = libCall.before
                  /\ Cardinality(AdmittedIn(libCall.before.admitted[libCall.key],
                                             libCall.at - WindowMs + 1)) >= MaxRequests
          /\ \A key \in RateKeys \ {libCall.key} :
                /\ limiter.requests[key] = libCall.before.requests[key]
                /\ limiter.admitted[key] = libCall.before.admitted[key]

C30_Witness ==
  /\ libCall.fn = "rateLimit" /\ libCall.status = 429
  /\ Len(limiter.admitted[libCall.key]) > MaxRequests
  /\ \E key \in RateKeys \ {libCall.key} : limiter.admitted[key] # <<>>

====
